---- MODULE Spec2Model ----
(***************************************************************************)
(* A model of swhid-rs: the core identifier grammar, the directory,        *)
(* snapshot and revision manifest encoders, and the qualified-identifier   *)
(* parser and builder.                                                     *)
(*                                                                         *)
(* Byte strings (Vec<u8>, Box<[u8]>, [u8; 20]) are sequences of integers   *)
(* 0..255.  Rust strings (&str, String) are sequences of one-character     *)
(* strings; all strings the model draws are ASCII, so a Rust byte length   *)
(* is the sequence length.                                                 *)
(*                                                                         *)
(* Every specification runs one operation on an input drawn in Init:       *)
(*   pc  = "start" before the operation, the operation's name after it,    *)
(*   inp = the input (or, for the builder, the value being built),         *)
(*   out = the value the operation returned.                               *)
(***************************************************************************)
EXTENDS Integers, Sequences, FiniteSets, TLC

VARIABLES pc, inp, out

vars == <<pc, inp, out>>

\* The value of out before any operation has returned.
Null == [none |-> TRUE]

\* Option<T>: None is the empty sequence, Some(x) the sequence of x alone.
None == <<>>

Some(x) == <<x>>

\* ------------------------------------------------------------------------
\* Bounds of the model
\* ------------------------------------------------------------------------

MaxEntries == 3

MaxBranches == 3

MaxItems == 2

MaxOthers == 1

\* ------------------------------------------------------------------------
\* Bytes and characters
\* ------------------------------------------------------------------------

DigitChars == <<"0", "1", "2", "3", "4", "5", "6", "7", "8", "9">>

UpperChars ==
    << "A", "B", "C", "D", "E", "F", "G", "H", "I", "J", "K", "L", "M",
       "N", "O", "P", "Q", "R", "S", "T", "U", "V", "W", "X", "Y", "Z" >>

LowerChars ==
    << "a", "b", "c", "d", "e", "f", "g", "h", "i", "j", "k", "l", "m",
       "n", "o", "p", "q", "r", "s", "t", "u", "v", "w", "x", "y", "z" >>

\* The ASCII codes of the characters the model uses.
PunctCodes ==
    (" " :> 32) @@ ("!" :> 33) @@ ("+" :> 43) @@ ("-" :> 45) @@ ("." :> 46)
    @@ ("/" :> 47) @@ (":" :> 58) @@ (";" :> 59) @@ ("<" :> 60)
    @@ ("=" :> 61) @@ (">" :> 62) @@ ("@" :> 64) @@ ("_" :> 95)

\* The function from each character of chars to base plus its index.
RangeCodes(chars, base) ==
    [c \in {chars[i] : i \in 1..Len(chars)} |->
        base + (CHOOSE i \in 1..Len(chars) : chars[i] = c)]

OrdTable ==
    PunctCodes @@ RangeCodes(DigitChars, 47) @@ RangeCodes(UpperChars, 64)
    @@ RangeCodes(LowerChars, 96)

\* The byte of an ASCII character; "\n" and "\t" are the control characters.
Ord(c) ==
    IF c = "\n" THEN 10
    ELSE IF c = "\t" THEN 9
    ELSE OrdTable[c]

\* s.as_bytes() of an ASCII string.
AsBytes(s) == [i \in 1..Len(s) |-> Ord(s[i])]

RECURSIVE ConcatUpTo(_, _)
\* The first n of the byte strings ss, one after the other.
ConcatUpTo(ss, n) == IF n = 0 THEN <<>> ELSE ConcatUpTo(ss, n - 1) \o ss[n]

\* The byte strings ss, one after the other.
Concat(ss) == ConcatUpTo(ss, Len(ss))

\* Ordering::cmp of two byte slices: lexicographic, a proper prefix is less.
\* -1, 0 or 1.
BytesCmp(a, b) ==
    LET n == IF Len(a) < Len(b) THEN Len(a) ELSE Len(b)
        diff == {i \in 1..n : a[i] # b[i]}
    IN  IF diff = {}
        THEN IF Len(a) < Len(b) THEN -1 ELSE IF Len(a) > Len(b) THEN 1 ELSE 0
        ELSE LET d == CHOOSE i \in diff : \A j \in diff : i <= j
             IN  IF a[d] < b[d] THEN -1 ELSE 1

\* A stable sort of s, whose item i has the byte-string key keys[i]: the item
\* of rank r is the one with r-1 items before it, where ties keep the input
\* order.
StableSortByKeys(s, keys) ==
    LET n == Len(s)
        before(j, i) ==
            LET c == BytesCmp(keys[j], keys[i])
            IN  c < 0 \/ (c = 0 /\ j < i)
        rank(i) == Cardinality({j \in 1..n : before(j, i)}) + 1
    IN  [r \in 1..n |-> s[CHOOSE i \in 1..n : rank(i) = r]]

RECURSIVE Digits(_, _)
\* The digits of n in the given base, most significant first, as ASCII bytes.
Digits(n, base) ==
    IF n < base THEN <<48 + n>>
    ELSE Append(Digits(n \div base, base), 48 + (n % base))

\* usize::to_string / format!("{}", n) as bytes.
Decimal(n) == Digits(n, 10)

\* s left-padded with the byte of the digit 0 to at least width bytes.
ZeroPad(s, width) ==
    IF Len(s) >= width THEN s
    ELSE [i \in 1..(width - Len(s)) |-> 48] \o s

\* ------------------------------------------------------------------------
\* hash.rs
\* ------------------------------------------------------------------------

DigestLen == 20

\* A 20-byte digest all of whose bytes are b.
Id(b) == [i \in 1..DigestLen |-> b]

\* The header without the NUL byte that ends it.
swhid_object_header_no_nul(typ, len) ==
    AsBytes(typ) \o <<32>> \o Decimal(len)

swhid_object_header(typ, len) ==
    AsBytes(typ) \o <<32>> \o Decimal(len) \o <<0>>

\* SHA-1 is left uninterpreted: a digest is identified with the bytes that
\* are hashed, the header followed by the payload.
hash_swhid_object(typ, payload) ==
    [sha1 |-> swhid_object_header(typ, Len(payload)) \o payload]

\* ------------------------------------------------------------------------
\* utils.rs: check_unique
\* ------------------------------------------------------------------------

\* Err(item) for the first item equal to the one before it, Ok otherwise.
check_unique(items) ==
    LET dup == {i \in 2..Len(items) : items[i] = items[i - 1]}
    IN  IF dup = {} THEN [ok |-> TRUE]
        ELSE [ok |-> FALSE,
              item |-> items[CHOOSE i \in dup : \A j \in dup : i <= j]]

\* ------------------------------------------------------------------------
\* directory.rs
\* ------------------------------------------------------------------------

ModeFile == 33188

ModeExec == 33261

ModeDir == 16384

ModeSymlink == 40960

Entry(name, mode, id) == [name |-> name, mode |-> mode, id |-> id]

\* The raw names of a list of entries or branches.
Names(items) == [i \in 1..Len(items) |-> items[i].name]

\* sort_children without its sort: the children in the caller's order.
sort_children_unsorted(children) == children

\* children.sort_by(|a, b| a.name.cmp(&b.name)): stable, by raw name.
sort_children(children) == StableSortByKeys(children, Names(children))

\* format!("{:06o}", e.mode): octal, zero-padded to six digits.
\* format!("{:06o}") of the file-type bits of the mode alone.
mode_bytes_type_only(mode) == ZeroPad(Digits((mode \div 512) * 512, 8), 6)

mode_bytes(mode) == ZeroPad(Digits(mode, 8), 6)

\* "<mode> <name>\0<id-bytes>"
entry_bytes(e) == mode_bytes(e.mode) \o <<32>> \o e.name \o <<0>> \o e.id

dir_payload(children) ==
    LET sorted == sort_children(children)
    IN  Concat([i \in 1..Len(sorted) |-> entry_bytes(sorted[i])])

\* The tail of hash_dir_inner: the payload of the collected children and
\* the digest of the "tree" object.
hash_dir_entries(children) ==
    LET payload == dir_payload(children)
    IN  [manifest |-> payload, digest |-> hash_swhid_object(<<"t", "r", "e", "e">>, payload)]

\* The directory builder from an explicit list of entries (Directory::new,
\* dir_manifest) is exercised by tests/directory.rs and its error type is
\* declared in error.rs; the builder itself is modelled from the design:
\* the entries are sorted by the sort key, the raw name with one '/' byte
\* appended if and only if the entry is a directory, then the names are
\* checked with check_unique and for the forbidden bytes NUL and '/', in the
\* order sort_and_check_branches performs the same steps for branches.
sort_key(e) == IF e.mode = ModeDir THEN e.name \o <<47>> ELSE e.name

sort_keys(entries) == [i \in 1..Len(entries) |-> sort_key(entries[i])]

ForbiddenEntryBytes == <<0, 47>>

\* The first forbidden byte of the sequence bytes that name contains, or -1.
first_forbidden(name, bytes) ==
    LET hit == {k \in 1..Len(bytes) : \E i \in 1..Len(name) : name[i] = bytes[k]}
    IN  IF hit = {} THEN -1
        ELSE bytes[CHOOSE k \in hit : \A l \in hit : k <= l]

\* Err(InvalidByteInName) for the first of names that holds a forbidden
\* byte, Ok otherwise.
check_bytes(names, bytes) ==
    LET bad == {i \in 1..Len(names) : first_forbidden(names[i], bytes) # -1}
    IN  IF bad = {} THEN [ok |-> TRUE]
        ELSE LET i == CHOOSE i \in bad : \A j \in bad : i <= j
             IN  [ok |-> FALSE, err |-> "InvalidByteInName",
                  byte |-> first_forbidden(names[i], bytes),
                  name |-> names[i]]

\* sort_and_check_entries without the check of the bytes of the names.
sort_and_check_entries_any_byte(entries) ==
    LET sorted == StableSortByKeys(entries, sort_keys(entries))
        unique == check_unique(Names(sorted))
    IN  IF ~unique.ok
        THEN [ok |-> FALSE, err |-> "DuplicateEntryName", name |-> unique.item]
        ELSE [ok |-> TRUE, entries |-> sorted]

sort_and_check_entries(entries) ==
    LET sorted == StableSortByKeys(entries, sort_keys(entries))
        names == Names(sorted)
        unique == check_unique(names)
        valid == check_bytes(names, ForbiddenEntryBytes)
    IN  IF ~unique.ok
        THEN [ok |-> FALSE, err |-> "DuplicateEntryName", name |-> unique.item]
        ELSE IF ~valid.ok THEN valid
        ELSE [ok |-> TRUE, entries |-> sorted]

Directory_new(entries) == sort_and_check_entries(entries)

\* ------------------------------------------------------------------------
\* snapshot.rs
\* ------------------------------------------------------------------------

\* A BranchTarget: its kind and its optional payload (None when dangling).
BranchTarget(kind, id) == [kind |-> kind, id |-> id]

Branch(name, target) == [name |-> name, target |-> target]

target_id(target) == IF target.id = None THEN <<>> ELSE target.id[1]

ForbiddenBranchBytes == <<0>>

\* sort_and_check_branches without the sort.
sort_and_check_branches_unsorted(branches) ==
    LET names == Names(branches)
        unique == check_unique(names)
        valid == check_bytes(names, ForbiddenBranchBytes)
    IN  IF ~unique.ok
        THEN [ok |-> FALSE, err |-> "DuplicateBranchName", name |-> unique.item]
        ELSE IF ~valid.ok THEN valid
        ELSE [ok |-> TRUE, branches |-> branches]

\* branches.sort_unstable_by(name), check_unique, then the NUL check.  The
\* unstable sort may order two branches of the same name either way; such a
\* list is rejected by check_unique with an error that holds the name only,
\* so the order among equal names never shows in the result.
sort_and_check_branches(branches) ==
    LET sorted == StableSortByKeys(branches, Names(branches))
        names == Names(sorted)
        unique == check_unique(names)
        valid == check_bytes(names, ForbiddenBranchBytes)
    IN  IF ~unique.ok
        THEN [ok |-> FALSE, err |-> "DuplicateBranchName", name |-> unique.item]
        ELSE IF ~valid.ok THEN valid
        ELSE [ok |-> TRUE, branches |-> sorted]

Snapshot_new(branches) == sort_and_check_branches(branches)

\* The manifest label of each BranchTarget variant.
target_label(target) ==
    CASE target.kind = "content" -> <<"c", "o", "n", "t", "e", "n", "t">>
      [] target.kind = "directory" ->
            <<"d", "i", "r", "e", "c", "t", "o", "r", "y">>
      [] target.kind = "revision" -> <<"r", "e", "v", "i", "s", "i", "o", "n">>
      [] target.kind = "release" -> <<"r", "e", "l", "e", "a", "s", "e">>
      [] target.kind = "snapshot" -> <<"s", "n", "a", "p", "s", "h", "o", "t">>
      [] target.kind = "alias" -> <<"a", "l", "i", "a", "s">>

\* The loop body of snp_manifest_unchecked writing the length of the name
\* where the length of the target belongs.
branch_bytes_name_length(b) ==
    AsBytes(target_label(b.target)) \o <<32>> \o b.name \o <<0>>
    \o Decimal(Len(b.name)) \o <<58>> \o target_id(b.target)

branch_bytes(b) ==
    AsBytes(target_label(b.target)) \o <<32>> \o b.name \o <<0>>
    \o Decimal(Len(target_id(b.target))) \o <<58>> \o target_id(b.target)

snp_manifest_unchecked(branches) ==
    Concat([i \in 1..Len(branches) |-> branch_bytes(branches[i])])

snp_manifest(branches) ==
    LET r == sort_and_check_branches(branches)
    IN  IF r.ok
        THEN [ok |-> TRUE, manifest |-> snp_manifest_unchecked(r.branches)]
        ELSE r

Snapshot_swhid(snapshot) ==
    [object_type |-> "snp",
     digest |-> hash_swhid_object(<<"s", "n", "a", "p", "s", "h", "o", "t">>,
                                  snp_manifest_unchecked(snapshot.branches))]

\* ------------------------------------------------------------------------
\* The directory and snapshot builders on lists of entries and branches
\* ------------------------------------------------------------------------

\* All sequences over S of length at most n.
SeqsUpTo(S, n) == UNION {[1..k -> S] : k \in 0..n}

\* The rearrangements of the sequence s.
Perms(s) ==
    {[i \in 1..Len(s) |-> s[p[i]]] : p \in Permutations(1..Len(s))}

DistinctNames(items) ==
    \A i, j \in 1..Len(items) : i # j => items[i].name # items[j].name

EntryPool ==
    { Entry(AsBytes(<<"a">>), ModeFile, Id(1)),
      Entry(AsBytes(<<"a">>), ModeDir, Id(2)),
      Entry(AsBytes(<<"a", ".", "t", "x", "t">>), ModeFile, Id(1)),
      Entry(AsBytes(<<"a", ".", "t", "x", "t">>), ModeSymlink, Id(2)),
      Entry(AsBytes(<<"b">>), ModeDir, Id(2)),
      Entry(AsBytes(<<"b">>), ModeExec, Id(1)),
      Entry(AsBytes(<<"a", "/", "b">>), ModeFile, Id(1)),
      Entry(<<98, 0>>, ModeFile, Id(2)),
      Entry(<<0, 47>>, ModeExec, Id(1)) }

BranchPool ==
    { Branch(AsBytes(<<"a">>), BranchTarget("revision", Some(Id(1)))),
      Branch(AsBytes(<<"a">>), BranchTarget("revision", Some(Id(2)))),
      Branch(AsBytes(<<"b">>), BranchTarget("alias", Some(AsBytes(<<"a">>)))),
      Branch(AsBytes(<<"b">>), BranchTarget("release", None)),
      Branch(AsBytes(<<"a", "b">>), BranchTarget("directory", Some(Id(2)))),
      Branch(<<97, 0>>, BranchTarget("content", Some(Id(1)))),
      Branch(<<0, 98>>, BranchTarget("alias", None)),
      Branch(<<99, 32, 58>>, BranchTarget("snapshot", Some(Id(58)))) }

DirInputs ==
    {[kind |-> "entries", items |-> s] : s \in SeqsUpTo(EntryPool, MaxEntries)}

SnpInputs ==
    {[kind |-> "branches", items |-> s] : s \in SeqsUpTo(BranchPool, MaxBranches)}

InitDir == pc = "start" /\ out = Null /\ inp \in DirInputs \cup SnpInputs

\* The names fs::read_dir can yield: a file name holds no NUL and no '/'.
FileNames(items) ==
    \A i \in 1..Len(items) : \A k \in 1..Len(items[i].name) :
        items[i].name[k] \notin {0, 47}

\* hash_dir_inner once the children are collected: the names of the children
\* of one filesystem directory are file names and pairwise distinct.
HashDirEntries ==
    /\ pc = "start" /\ inp.kind = "entries"
    /\ DistinctNames(inp.items) /\ FileNames(inp.items)
    /\ out' = hash_dir_entries(inp.items)
    /\ pc' = "hash_dir_entries"
    /\ UNCHANGED inp

DirectoryNew ==
    /\ pc = "start" /\ inp.kind = "entries"
    /\ out' = Directory_new(inp.items)
    /\ pc' = "Directory_new"
    /\ UNCHANGED inp

SnapshotNew ==
    /\ pc = "start" /\ inp.kind = "branches"
    /\ out' = Snapshot_new(inp.items)
    /\ pc' = "Snapshot_new"
    /\ UNCHANGED inp

SnapshotSwhid ==
    /\ pc = "Snapshot_new" /\ out.ok
    /\ out' = [snapshot |-> out, swhid |-> Snapshot_swhid(out)]
    /\ pc' = "Snapshot_swhid"
    /\ UNCHANGED inp

SnpManifest ==
    /\ pc = "start" /\ inp.kind = "branches"
    /\ out' = snp_manifest(inp.items)
    /\ pc' = "snp_manifest"
    /\ UNCHANGED inp

NextDir ==
    \/ HashDirEntries
    \/ DirectoryNew
    \/ SnapshotNew
    \/ SnapshotSwhid
    \/ SnpManifest

SpecDir == InitDir /\ [][NextDir]_vars

\* ------------------------------------------------------------------------
\* C1 - C4: the directory and snapshot builders
\* ------------------------------------------------------------------------

\* The entries in ascending byte order of the sort key, encoded as the walk
\* encodes them.
ManifestInSortKeyOrder(entries) ==
    LET sorted == StableSortByKeys(entries, sort_keys(entries))
    IN  Concat([i \in 1..Len(sorted) |-> entry_bytes(sorted[i])])

\* C1: the entries of a directory manifest appear in ascending byte order of
\* the sort key, the raw name with one '/' byte appended if and only if the
\* entry is a directory, so that a directory a comes after a file a.txt.
C1_SortKeyOrder ==
    pc = "hash_dir_entries" => out.manifest = ManifestInSortKeyOrder(inp.items)

\* An entry as the manifest encoding states it: the mode in octal without
\* leading zeros, a space, the raw name, a NUL byte, the 20 digest bytes.
MinimalOctalEntry(e) ==
    Digits(e.mode, 8) \o <<32>> \o e.name \o <<0>> \o e.id

\* C2: every entry of a directory manifest is the mode in octal ASCII with no
\* leading zeros (40000 for a directory), one space, the raw name, one NUL
\* byte and the 20 raw digest bytes; the entries follow one another in
\* sorted order with no separator, and no entries give the empty manifest.
C2_EntryEncoding ==
    pc = "hash_dir_entries" =>
        LET sorted == sort_children(inp.items)
        IN  out.manifest =
                Concat([i \in 1..Len(sorted) |-> MinimalOctalEntry(sorted[i])])

C4_OrderIndependent ==
    /\ pc = "hash_dir_entries" =>
          \A p \in Perms(inp.items) : hash_dir_entries(p) = out
    /\ (pc = "Snapshot_swhid" /\ DistinctNames(inp.items)) =>
          \A p \in Perms(inp.items) :
              /\ Snapshot_new(p) = out.snapshot
              /\ Snapshot_swhid(Snapshot_new(p)) = out.swhid
    /\ (pc = "snp_manifest" /\ DistinctNames(inp.items)) =>
          \A p \in Perms(inp.items) : snp_manifest(p) = out

\* Three entries were given out of order and the walk has built their
\* manifest.
C4_Witness ==
    /\ pc = "hash_dir_entries"
    /\ Len(inp.items) = 3
    /\ inp.items # sort_children(inp.items)
    /\ Len(out.manifest) > 0

\* ------------------------------------------------------------------------
\* Strings
\* ------------------------------------------------------------------------

\* The positions of the character sep in s.
Positions(s, sep) == {i \in 1..Len(s) : s[i] = sep}

\* s.split(sep): the pieces of s between the occurrences of sep, one more
\* than there are occurrences (the empty string gives one empty piece).
Split(s, sep) ==
    LET pos == Positions(s, sep)
        n == Cardinality(pos)
        nth(k) == CHOOSE i \in pos : Cardinality({j \in pos : j < i}) = k - 1
        first(k) == IF k = 1 THEN 1 ELSE nth(k - 1) + 1
        last(k) == IF k = n + 1 THEN Len(s) ELSE nth(k) - 1
    IN  [k \in 1..(n + 1) |-> SubSeq(s, first(k), last(k))]

\* s.split_once(sep): None, or Some of the parts before and after the
\* first occurrence of sep.
split_once(s, sep) ==
    LET pos == Positions(s, sep)
    IN  IF pos = {} THEN None
        ELSE LET i == CHOOSE i \in pos : \A j \in pos : i <= j
             IN  Some(<<SubSeq(s, 1, i - 1), SubSeq(s, i + 1, Len(s))>>)

\* The pieces joined with sep between them.
RECURSIVE Join(_, _)
Join(pieces, sep) ==
    IF Len(pieces) = 0 THEN <<>>
    ELSE IF Len(pieces) = 1 THEN pieces[1]
    ELSE pieces[1] \o <<sep>> \o Join(Tail(pieces), sep)

\* ------------------------------------------------------------------------
\* The hex crate
\* ------------------------------------------------------------------------

LowerHexChars ==
    << "0", "1", "2", "3", "4", "5", "6", "7", "8", "9",
       "a", "b", "c", "d", "e", "f" >>

UpperHexChars ==
    << "0", "1", "2", "3", "4", "5", "6", "7", "8", "9",
       "A", "B", "C", "D", "E", "F" >>

LowerHex == {LowerHexChars[i] : i \in 1..16}

AnyHex == LowerHex \cup {UpperHexChars[i] : i \in 1..16}

\* The value of a hex digit of either case.
HexVal(c) ==
    IF c \in LowerHex
    THEN (CHOOSE i \in 1..16 : LowerHexChars[i] = c) - 1
    ELSE (CHOOSE i \in 1..16 : UpperHexChars[i] = c) - 1

\* hex::encode_upper
hex_encode_upper(bytes) ==
    [i \in 1..(2 * Len(bytes)) |->
        IF i % 2 = 1 THEN UpperHexChars[(bytes[(i + 1) \div 2] \div 16) + 1]
        ELSE UpperHexChars[(bytes[i \div 2] % 16) + 1]]

\* hex::encode: two lowercase hex digits per byte, high nibble first.
hex_encode(bytes) ==
    [i \in 1..(2 * Len(bytes)) |->
        IF i % 2 = 1 THEN LowerHexChars[(bytes[(i + 1) \div 2] \div 16) + 1]
        ELSE LowerHexChars[(bytes[i \div 2] % 16) + 1]]

\* hex::decode_to_slice into a buffer of len bytes: an error for a string
\* that is not 2 * len hex digits; digits of either case are decoded.
hex_decode_to_slice(s, len) ==
    IF Len(s) # 2 * len \/ \E i \in 1..Len(s) : s[i] \notin AnyHex
    THEN [ok |-> FALSE]
    ELSE [ok |-> TRUE,
          raw |-> [i \in 1..len |->
                      16 * HexVal(s[2 * i - 1]) + HexVal(s[2 * i])]]

\* ------------------------------------------------------------------------
\* core.rs
\* ------------------------------------------------------------------------

ObjectTypes == {"Content", "Directory", "Revision", "Release", "Snapshot"}

as_tag(object_type) ==
    CASE object_type = "Content" -> <<"c", "n", "t">>
      [] object_type = "Directory" -> <<"d", "i", "r">>
      [] object_type = "Revision" -> <<"r", "e", "v">>
      [] object_type = "Release" -> <<"r", "e", "l">>
      [] object_type = "Snapshot" -> <<"s", "n", "p">>

from_tag(tag) ==
    CASE tag = <<"c", "n", "t">> -> [ok |-> TRUE, value |-> "Content"]
      [] tag = <<"d", "i", "r">> -> [ok |-> TRUE, value |-> "Directory"]
      [] tag = <<"r", "e", "v">> -> [ok |-> TRUE, value |-> "Revision"]
      [] tag = <<"r", "e", "l">> -> [ok |-> TRUE, value |-> "Release"]
      [] tag = <<"s", "n", "p">> -> [ok |-> TRUE, value |-> "Snapshot"]
      [] OTHER -> [ok |-> FALSE, err |-> "InvalidObjectType", arg |-> tag]

VERSION == <<"1">>

DigestHexLen == 40

Swhid_new(object_type, digest) ==
    [object_type |-> object_type, digest |-> digest]

\* digest_hex with the uppercase encoder.
digest_hex_upper(swhid) == hex_encode_upper(swhid.digest)

digest_hex(swhid) == hex_encode(swhid.digest)

\* impl Display for Swhid
Swhid_to_string(swhid) ==
    <<"s", "w", "h", ":">> \o VERSION \o <<":">> \o as_tag(swhid.object_type)
    \o <<":">> \o digest_hex(swhid)

\* The digest check without the restriction to lowercase digits.
digest_hex_ok_any_case(digest_hex_str) ==
    /\ Len(digest_hex_str) = DigestHexLen
    /\ \A i \in 1..Len(digest_hex_str) : digest_hex_str[i] \in AnyHex

\* digest_hex.len() == 40 && all bytes are 0-9 or a-f
digest_hex_ok(digest_hex_str) ==
    /\ Len(digest_hex_str) = DigestHexLen
    /\ \A i \in 1..Len(digest_hex_str) : digest_hex_str[i] \in LowerHex

Err(kind, arg) == [ok |-> FALSE, err |-> kind, arg |-> arg]

\* impl FromStr for Swhid
Swhid_from_str(s) ==
    LET it == Split(s, ":")
        scheme == it[1]
    IN  IF scheme # <<"s", "w", "h">> THEN Err("InvalidScheme", scheme)
        ELSE IF Len(it) < 2 THEN Err("InvalidFormat", s)
        ELSE IF it[2] # VERSION THEN Err("InvalidVersion", it[2])
        ELSE IF Len(it) < 3 THEN Err("InvalidFormat", s)
        ELSE IF ~from_tag(it[3]).ok THEN from_tag(it[3])
        ELSE IF Len(it) < 4 THEN Err("InvalidFormat", s)
        ELSE IF Len(it) > 4 THEN Err("InvalidFormat", s)
        ELSE IF ~digest_hex_ok(it[4]) THEN Err("InvalidDigest", it[4])
        ELSE LET dec == hex_decode_to_slice(it[4], DigestLen)
             IN  IF ~dec.ok THEN Err("InvalidDigest", it[4])
                 ELSE [ok |-> TRUE,
                       value |-> Swhid_new(from_tag(it[3]).value, dec.raw)]

\* ------------------------------------------------------------------------
\* Parsing and formatting core identifiers
\* ------------------------------------------------------------------------

\* The string of n characters c.
Rep(c, n) == [i \in 1..n |-> c]

\* A digest string in which every hex digit occurs.
MixedDigest == [i \in 1..DigestHexLen |-> LowerHexChars[((i * 7) % 16) + 1]]

GoodDigests == {Rep(c, DigestHexLen) : c \in LowerHex} \cup {MixedDigest}

BadDigests ==
    { Rep("A", DigestHexLen),
      <<"E">> \o Rep("6", DigestHexLen - 1),
      Rep("a", DigestHexLen - 1),
      Rep("a", DigestHexLen + 1),
      Rep("a", DigestHexLen - 1) \o <<"g">>,
      Rep("a", DigestHexLen - 1) \o <<"!">>,
      Rep("a", DigestHexLen - 1) \o <<" ">>,
      Rep("a", DigestHexLen) \o <<" ">>,
      Rep("a", DigestHexLen) \o <<"\n">>,
      Rep("a", DigestHexLen) \o <<"\t">>,
      <<>> }

Schemes == {<<"s", "w", "h">>, <<" ", "s", "w", "h">>, <<"S", "W", "H">>, <<>>}

Versions == {<<"1">>, <<"2">>, <<>>}

GoodTags == {as_tag(ty) : ty \in ObjectTypes}

BadTags == {<<"C", "N", "T">>, <<"c", "n">>, <<>>}

\* Strings of four fields, of fewer fields, and of a valid identifier
\* followed by a fifth field.
CoreStrings ==
    {Join(<<sc, v, tg, d>>, ":") :
        sc \in Schemes, v \in Versions,
        tg \in GoodTags \cup BadTags, d \in GoodDigests \cup BadDigests}
    \cup {Join(SubSeq(<<<<"s", "w", "h">>, v, tg>>, 1, k), ":") :
        v \in Versions, tg \in GoodTags \cup BadTags, k \in 1..3}
    \cup {Join(<<<<"s", "w", "h">>, <<"1">>, tg, d, x>>, ":") :
        tg \in GoodTags, d \in GoodDigests,
        x \in {<<>>, <<"e", "x", "t", "r", "a">>}}
    \cup {<<>>}

InitCore ==
    /\ pc = "start" /\ out = Null
    /\ inp \in {[kind |-> "core", s |-> s] : s \in CoreStrings}

SwhidFromStr ==
    /\ pc = "start" /\ inp.kind = "core"
    /\ out' = Swhid_from_str(inp.s)
    /\ pc' = "from_str"
    /\ UNCHANGED inp

SwhidToString ==
    /\ pc = "from_str" /\ out.ok
    /\ out' = [value |-> out.value, shown |-> Swhid_to_string(out.value)]
    /\ pc' = "to_string"
    /\ UNCHANGED inp

NextCore == SwhidFromStr \/ SwhidToString

SpecCore == InitCore /\ [][NextCore]_vars

\* C5: for every string s that Swhid::from_str accepts, the parsed value
\* formats back to s, for each object type and every digest.
C5_CoreRoundTrip == pc = "to_string" => out.shown = inp.s

\* A snapshot identifier whose digest holds every hex digit was parsed and
\* formatted.
C5_Witness ==
    /\ pc = "to_string"
    /\ out.value.object_type = "Snapshot"
    /\ SubSeq(inp.s, Len(inp.s) - DigestHexLen + 1, Len(inp.s)) = MixedDigest

\* The grammar swh:1:<tag>:<digest>: a tag of the five, 40 digits 0-9a-f.
IsCoreIdentifier(s) ==
    /\ Len(s) = 10 + DigestHexLen
    /\ SubSeq(s, 1, 6) = <<"s", "w", "h", ":", "1", ":">>
    /\ SubSeq(s, 7, 9) \in GoodTags
    /\ s[10] = ":"
    /\ \A i \in 11..Len(s) : s[i] \in LowerHex

\* C6: Swhid::from_str accepts s if and only if s is swh:1:<tag>:<digest>
\* with one of the five tags and exactly 40 digits 0-9a-f; uppercase,
\* surrounding whitespace or control characters, or a fifth field fail.
C6_AcceptsExactlyGrammar ==
    pc = "from_str" => (out.ok <=> IsCoreIdentifier(inp.s))

\* A string whose only fault is an uppercase first digit was rejected.
C6_Witness ==
    /\ pc = "from_str"
    /\ ~out.ok
    /\ Len(inp.s) = 10 + DigestHexLen
    /\ SubSeq(inp.s, 1, 11) =
           <<"s", "w", "h", ":", "1", ":", "c", "n", "t", ":", "E">>

\* ------------------------------------------------------------------------
\* u64
\* ------------------------------------------------------------------------

\* A u64 is its decimal numeral: the sequence of its digits 0..9 without
\* leading zeros (zero is the one digit 0), so that the full 64-bit range is
\* kept.
U64Max == <<1, 8, 4, 4, 6, 7, 4, 4, 0, 7, 3, 7, 0, 9, 5, 5, 1, 6, 1, 5>>

\* a < b for two numerals.
U64Less(a, b) ==
    \/ Len(a) < Len(b)
    \/ (Len(a) = Len(b) /\ BytesCmp(a, b) < 0)

\* The numeral without its leading zeros.
RECURSIVE StripZeros(_)
StripZeros(ds) ==
    IF Len(ds) > 1 /\ ds[1] = 0 THEN StripZeros(Tail(ds)) ELSE ds

DigitSet == {DigitChars[i] : i \in 1..10}

DigitVal(c) == (CHOOSE i \in 1..10 : DigitChars[i] = c) - 1

\* str::parse::<u64>: an optional '+', then one or more decimal digits whose
\* value fits in 64 bits; no '-', no space, no empty string.
parse_u64(s) ==
    LET body == IF Len(s) > 0 /\ s[1] = "+" THEN Tail(s) ELSE s
    IN  IF body = <<>> \/ \E i \in 1..Len(body) : body[i] \notin DigitSet
        THEN [ok |-> FALSE]
        ELSE LET n == StripZeros([i \in 1..Len(body) |-> DigitVal(body[i])])
             IN  IF U64Less(U64Max, n) THEN [ok |-> FALSE]
                 ELSE [ok |-> TRUE, value |-> n]

\* u64's Display.
u64_to_string(n) == [i \in 1..Len(n) |-> DigitChars[n[i] + 1]]

\* ------------------------------------------------------------------------
\* qualifier.rs
\* ------------------------------------------------------------------------

Range(start, end) == [start |-> start, end |-> end]

parse_range(s) ==
    LET ab == split_once(s, "-")
    IN  IF ab # None
        THEN LET start == parse_u64(ab[1][1])
                 end == parse_u64(ab[1][2])
             IN  IF ~start.ok THEN Err("InvalidQualifierValue", s)
                 ELSE IF ~end.ok THEN Err("InvalidQualifierValue", s)
                 ELSE IF U64Less(end.value, start.value)
                 THEN Err("InvalidQualifierValue", s)
                 ELSE [ok |-> TRUE,
                       value |-> Range(start.value, Some(end.value))]
        ELSE LET start == parse_u64(s)
             IN  IF ~start.ok THEN Err("InvalidQualifierValue", s)
                 ELSE [ok |-> TRUE, value |-> Range(start.value, None)]

\* Range_to_string without the end of the range.
Range_to_string_start_only(r) == u64_to_string(r.start)

\* impl Display for LineRange, for ByteRange
Range_to_string(r) ==
    IF r.end # None
    THEN u64_to_string(r.start) \o <<"-">> \o u64_to_string(r.end[1])
    ELSE u64_to_string(r.start)

KeyOrigin == <<"o", "r", "i", "g", "i", "n">>

KeyVisit == <<"v", "i", "s", "i", "t">>

KeyAnchor == <<"a", "n", "c", "h", "o", "r">>

KeyPath == <<"p", "a", "t", "h">>

KeyLines == <<"l", "i", "n", "e", "s">>

KeyBytes == <<"b", "y", "t", "e", "s">>

QualifiedSwhid_new(core) ==
    [core |-> core, origin |-> None, visit |-> None, anchor |-> None,
     path |-> None, lines |-> None, bytes |-> None, others |-> <<>>]

with_origin(q, url) == [q EXCEPT !.origin = Some(url)]

with_visit(q, id) == [q EXCEPT !.visit = Some(id)]

with_anchor(q, id) == [q EXCEPT !.anchor = Some(id)]

with_path(q, path) == [q EXCEPT !.path = Some(path)]

with_lines(q, lines) == [q EXCEPT !.lines = Some(lines)]

with_bytes(q, bytes) == [q EXCEPT !.bytes = Some(bytes)]

push_unknown(q, key, value) ==
    [q EXCEPT !.others = Append(@, <<key, value>>)]

\* write_kv: ";k=v"
write_kv(k, v) == <<";">> \o k \o <<"=">> \o v

\* Display for QualifiedSwhid writing the unrecognized pairs first and the
\* path before the origin.
QualifiedSwhid_to_string_others_first(q) ==
    Swhid_to_string(q.core)
    \o Concat([i \in 1..Len(q.others) |->
                  write_kv(q.others[i][1], q.others[i][2])])
    \o (IF q.path = None THEN <<>> ELSE write_kv(KeyPath, q.path[1]))
    \o (IF q.origin = None THEN <<>> ELSE write_kv(KeyOrigin, q.origin[1]))
    \o (IF q.visit = None THEN <<>>
        ELSE write_kv(KeyVisit, Swhid_to_string(q.visit[1])))
    \o (IF q.anchor = None THEN <<>>
        ELSE write_kv(KeyAnchor, Swhid_to_string(q.anchor[1])))
    \o (IF q.lines = None THEN <<>>
        ELSE write_kv(KeyLines, Range_to_string(q.lines[1])))
    \o (IF q.bytes = None THEN <<>>
        ELSE write_kv(KeyBytes, Range_to_string(q.bytes[1])))

\* impl Display for QualifiedSwhid
QualifiedSwhid_to_string(q) ==
    Swhid_to_string(q.core)
    \o (IF q.origin = None THEN <<>> ELSE write_kv(KeyOrigin, q.origin[1]))
    \o (IF q.visit = None THEN <<>>
        ELSE write_kv(KeyVisit, Swhid_to_string(q.visit[1])))
    \o (IF q.anchor = None THEN <<>>
        ELSE write_kv(KeyAnchor, Swhid_to_string(q.anchor[1])))
    \o (IF q.path = None THEN <<>> ELSE write_kv(KeyPath, q.path[1]))
    \o (IF q.lines = None THEN <<>>
        ELSE write_kv(KeyLines, Range_to_string(q.lines[1])))
    \o (IF q.bytes = None THEN <<>>
        ELSE write_kv(KeyBytes, Range_to_string(q.bytes[1])))
    \o Concat([i \in 1..Len(q.others) |->
                  write_kv(q.others[i][1], q.others[i][2])])

\* The body of the loop over the items of the qualifier string.
parse_item(q, item) ==
    IF item = <<>> THEN [ok |-> TRUE, value |-> q]
    ELSE LET kv == split_once(item, "=")
         IN  IF kv = None THEN Err("InvalidFormat", item)
             ELSE LET k == kv[1][1]
                      v == kv[1][2]
                  IN  IF k = <<>> THEN Err("InvalidFormat", item)
                      ELSE IF k = KeyOrigin
                      THEN [ok |-> TRUE, value |-> with_origin(q, v)]
                      ELSE IF k = KeyVisit
                      THEN LET id == Swhid_from_str(v)
                           IN  IF ~id.ok THEN id
                               ELSE [ok |-> TRUE,
                                     value |-> with_visit(q, id.value)]
                      ELSE IF k = KeyAnchor
                      THEN LET id == Swhid_from_str(v)
                           IN  IF ~id.ok THEN id
                               ELSE [ok |-> TRUE,
                                     value |-> with_anchor(q, id.value)]
                      ELSE IF k = KeyPath
                      THEN [ok |-> TRUE, value |-> with_path(q, v)]
                      ELSE IF k = KeyLines
                      THEN LET r == parse_range(v)
                           IN  IF ~r.ok THEN r
                               ELSE [ok |-> TRUE,
                                     value |-> with_lines(q, r.value)]
                      ELSE IF k = KeyBytes
                      THEN LET r == parse_range(v)
                           IN  IF ~r.ok THEN r
                               ELSE [ok |-> TRUE,
                                     value |-> with_bytes(q, r.value)]
                      ELSE [ok |-> TRUE, value |-> push_unknown(q, k, v)]

\* for item in qstr.split(';'), stopping at the first error.
RECURSIVE parse_items(_, _)
parse_items(q, items) ==
    IF items = <<>> THEN [ok |-> TRUE, value |-> q]
    ELSE LET r == parse_item(q, Head(items))
         IN  IF ~r.ok THEN r ELSE parse_items(r.value, Tail(items))

\* impl FromStr for QualifiedSwhid
QualifiedSwhid_from_str(s) ==
    LET cq == split_once(s, ";")
        core == Swhid_from_str(IF cq = None THEN s ELSE cq[1][1])
    IN  IF ~core.ok THEN core
        ELSE IF cq = None
        THEN [ok |-> TRUE, value |-> QualifiedSwhid_new(core.value)]
        ELSE parse_items(QualifiedSwhid_new(core.value), Split(cq[1][2], ";"))

\* ------------------------------------------------------------------------
\* Parsing and formatting qualified identifiers
\* ------------------------------------------------------------------------

CorePrefix(tag) == <<"s", "w", "h", ":", "1", ":">> \o tag \o <<":">>

QualCores ==
    { CorePrefix(<<"c", "n", "t">>) \o MixedDigest,
      CorePrefix(<<"c", "n", "t">>) \o Rep("A", DigestHexLen) }

Item(k, v) == k \o <<"=">> \o v

\* Qualifier items: known keys, a key given twice, nested identifiers, ranges
\* in several spellings, unrecognized keys, and malformed items.
ItemPool ==
    { Item(KeyOrigin, <<"u">>),
      Item(KeyOrigin, <<"w">>),
      Item(KeyVisit, CorePrefix(<<"s", "n", "p">>) \o Rep("1", DigestHexLen)),
      Item(KeyVisit, <<"b", "a", "d">>),
      Item(KeyAnchor, CorePrefix(<<"r", "e", "v">>) \o Rep("f", DigestHexLen)),
      Item(KeyPath, <<"/", "p">>),
      Item(KeyLines, <<"1", "-", "2">>),
      Item(KeyLines, <<"2", "-", "1">>),
      Item(KeyLines, <<"0", "1">>),
      Item(KeyLines, <<"7", "-", "7">>),
      Item(KeyBytes, <<"+", "3">>),
      Item(KeyBytes, <<"5">>),
      Item(<<"x">>, <<"y">>),
      Item(<<"z">>, <<>>),
      Item(<<"a">>, <<"b", "=", "c">>),
      <<>>,
      <<"n", "o", "e", "q">>,
      Item(<<>>, <<"v">>) }

QualStrings ==
    {core \o Concat([i \in 1..Len(items) |-> <<";">> \o items[i]]) :
        core \in QualCores, items \in SeqsUpTo(ItemPool, MaxItems)}

InitQual ==
    /\ pc = "start" /\ out = Null
    /\ inp \in {[kind |-> "qualified", s |-> s] : s \in QualStrings}

QualifiedFromStr ==
    /\ pc = "start" /\ inp.kind = "qualified"
    /\ out' = QualifiedSwhid_from_str(inp.s)
    /\ pc' = "q_from_str"
    /\ UNCHANGED inp

QualifiedToString ==
    /\ pc = "q_from_str" /\ out.ok
    /\ out' = [value |-> out.value, shown |-> QualifiedSwhid_to_string(out.value)]
    /\ pc' = "q_to_string"
    /\ UNCHANGED inp

NextQual == QualifiedFromStr \/ QualifiedToString

SpecQual == InitQual /\ [][NextQual]_vars

\* A range bound written as plain decimal digits: no sign, no leading zero.
PlainDecimal(b) ==
    /\ Len(b) > 0
    /\ \A i \in 1..Len(b) : b[i] \in DigitSet
    /\ (Len(b) > 1 => b[1] # "0")

\* The key of an item, the part before its first '='.
ItemKey(item) ==
    LET kv == split_once(item, "=") IN IF kv = None THEN item ELSE kv[1][1]

ItemValue(item) ==
    LET kv == split_once(item, "=") IN IF kv = None THEN <<>> ELSE kv[1][2]

\* The place of a key in the serialization order; 7 for unrecognized keys.
KeyRank(k) ==
    CASE k = KeyOrigin -> 1
      [] k = KeyVisit -> 2
      [] k = KeyAnchor -> 3
      [] k = KeyPath -> 4
      [] k = KeyLines -> 5
      [] k = KeyBytes -> 6
      [] OTHER -> 7

\* s is written in the serialization order: no empty item, the known keys at
\* most once each and in the order origin, visit, anchor, path, lines, bytes
\* before every unrecognized key, and range bounds in plain decimal.
IsCanonicalForm(s) ==
    LET cq == split_once(s, ";")
    IN  cq # None =>
            LET items == Split(cq[1][2], ";")
                rank(i) == KeyRank(ItemKey(items[i]))
            IN  /\ \A i \in 1..Len(items) : items[i] # <<>>
                /\ \A i, j \in 1..Len(items) :
                      i < j => \/ rank(i) < rank(j)
                               \/ (rank(i) = 7 /\ rank(j) = 7)
                /\ \A i \in 1..Len(items) :
                      rank(i) \in {5, 6} =>
                          LET bs == Split(ItemValue(items[i]), "-")
                          IN  \A k \in 1..Len(bs) : PlainDecimal(bs[k])

\* C7 as stated: for every string s that QualifiedSwhid::from_str accepts,
\* the parsed value formats back to s, whatever the order, number and
\* spelling of its qualifiers.
C7_QualifiedRoundTrip == pc = "q_to_string" => out.shown = inp.s

\* C7 as amended: for every accepted string s that is written in the
\* serialization order (no empty item, each known key at most once and in
\* the order origin, visit, anchor, path, lines, bytes before every
\* unrecognized key, range bounds in plain decimal), the parsed value
\* formats back to s.
C7_CanonicalRoundTrip ==
    (pc = "q_to_string" /\ IsCanonicalForm(inp.s)) => out.shown = inp.s

\* A string with a line range and an unrecognized key, in the serialization
\* order, was parsed and formatted.
C7_Witness ==
    /\ pc = "q_to_string"
    /\ IsCanonicalForm(inp.s)
    /\ out.value.lines # None
    /\ out.value.lines[1].end # None
    /\ Len(out.value.others) = 1

\* ------------------------------------------------------------------------
\* Building qualified identifiers
\* ------------------------------------------------------------------------

BuilderCores ==
    { Swhid_new("Content", Id(18)), Swhid_new("Directory", Id(171)) }

OriginPool == {<<"u">>, <<"a", ";", "b">>}

PathPool == {<<"/", "p">>}

\* LineRange and ByteRange have public fields: any two u64 make a range.
LinesPool == {Range(<<1>>, Some(<<2>>)), Range(<<2>>, Some(<<1>>))}

BytesPool == {Range(<<5>>, None)}

UnknownPool == {<<<<"x">>, <<"y">>>>, <<KeyOrigin, <<"z">>>>, <<<<>>, <<"v">>>>}

InitBuild ==
    /\ pc = "new" /\ out = Null
    /\ inp \in {[kind |-> "builder", q |-> QualifiedSwhid_new(core)] :
                   core \in BuilderCores}

Building == pc = "new" /\ inp.kind = "builder"

WithOrigin ==
    /\ Building
    /\ \E url \in OriginPool : inp' = [inp EXCEPT !.q = with_origin(@, url)]
    /\ UNCHANGED <<pc, out>>

WithVisit ==
    /\ Building
    /\ \E id \in BuilderCores : inp' = [inp EXCEPT !.q = with_visit(@, id)]
    /\ UNCHANGED <<pc, out>>

WithAnchor ==
    /\ Building
    /\ \E id \in BuilderCores : inp' = [inp EXCEPT !.q = with_anchor(@, id)]
    /\ UNCHANGED <<pc, out>>

WithPath ==
    /\ Building
    /\ \E path \in PathPool : inp' = [inp EXCEPT !.q = with_path(@, path)]
    /\ UNCHANGED <<pc, out>>

WithLines ==
    /\ Building
    /\ \E lines \in LinesPool : inp' = [inp EXCEPT !.q = with_lines(@, lines)]
    /\ UNCHANGED <<pc, out>>

WithBytes ==
    /\ Building
    /\ \E bytes \in BytesPool : inp' = [inp EXCEPT !.q = with_bytes(@, bytes)]
    /\ UNCHANGED <<pc, out>>

PushUnknown ==
    /\ Building
    /\ Len(inp.q.others) < MaxOthers
    /\ \E kv \in UnknownPool :
          inp' = [inp EXCEPT !.q = push_unknown(@, kv[1], kv[2])]
    /\ UNCHANGED <<pc, out>>

BuiltToString ==
    /\ Building
    /\ out' = [shown |-> QualifiedSwhid_to_string(inp.q)]
    /\ pc' = "built_to_string"
    /\ UNCHANGED inp

BuiltFromStr ==
    /\ pc = "built_to_string"
    /\ out' = [shown |-> out.shown,
               parsed |-> QualifiedSwhid_from_str(out.shown)]
    /\ pc' = "built_from_str"
    /\ UNCHANGED inp

NextBuild ==
    \/ WithOrigin
    \/ WithVisit
    \/ WithAnchor
    \/ WithPath
    \/ WithLines
    \/ WithBytes
    \/ PushUnknown
    \/ BuiltToString
    \/ BuiltFromStr

SpecBuild == InitBuild /\ [][NextBuild]_vars

\* C8: for every QualifiedSwhid q built from QualifiedSwhid::new by any
\* sequence of with_origin, with_visit, with_anchor, with_path, with_lines,
\* with_bytes and push_unknown calls, q.to_string() parses and the parsed
\* value equals q.
C8_BuiltRoundTrip ==
    pc = "built_from_str" => out.parsed = [ok |-> TRUE, value |-> inp.q]

\* ------------------------------------------------------------------------
\* utils.rs: HeaderWriter (the writer is the byte vector it has written)
\* ------------------------------------------------------------------------

MaxParents == 2
MaxHeaders == 2

Newline == 10
Space == 32

\* The loop of HeaderWriter::push without the space after a newline.
push_value_verbatim(value) ==
    Concat([i \in 1..Len(value) |-> <<value[i]>>])

\* The loop of HeaderWriter::push over the value: every byte is copied and
\* a space is written after each newline byte.
push_value(value) ==
    Concat([i \in 1..Len(value) |->
               IF value[i] = Newline THEN <<Newline, Space>> ELSE <<value[i]>>])

push(self, key, value) ==
    self \o key \o <<Space>> \o push_value(value) \o <<Newline>>

\* i64::to_string as bytes.
i64_to_string(n) == IF n < 0 THEN <<45>> \o Decimal(0 - n) ELSE Decimal(n)

push_authorship(self, key, name, timestamp, timestamp_offset) ==
    push(self, key,
         name \o <<Space>> \o i64_to_string(timestamp) \o <<Space>>
              \o timestamp_offset)

build(self, message) ==
    IF message # None THEN self \o <<Newline>> \o message[1] ELSE self

\* ------------------------------------------------------------------------
\* revision.rs
\* ------------------------------------------------------------------------

Revision(directory, parents, author, committer, extra_headers, message) ==
    [directory |-> directory, parents |-> parents,
     author |-> author.name,
     author_timestamp |-> author.timestamp,
     author_timestamp_offset |-> author.offset,
     committer |-> committer.name,
     committer_timestamp |-> committer.timestamp,
     committer_timestamp_offset |-> committer.offset,
     extra_headers |-> extra_headers, message |-> message]

KeyTree == AsBytes(<<"t", "r", "e", "e">>)
KeyParent == AsBytes(<<"p", "a", "r", "e", "n", "t">>)
KeyAuthor == AsBytes(<<"a", "u", "t", "h", "o", "r">>)
KeyCommitter == AsBytes(<<"c", "o", "m", "m", "i", "t", "t", "e", "r">>)

RECURSIVE push_parents(_, _)
\* for parent in parents { writer.push(b"parent", parent) }
push_parents(writer, parents) ==
    IF parents = <<>> THEN writer
    ELSE push_parents(push(writer, KeyParent, Head(parents)), Tail(parents))

RECURSIVE push_extra_headers(_, _)
\* for (key, value) in extra_headers { writer.push(key, value) }
push_extra_headers(writer, extra_headers) ==
    IF extra_headers = <<>> THEN writer
    ELSE push_extra_headers(push(writer, Head(extra_headers)[1],
                                 Head(extra_headers)[2]),
                            Tail(extra_headers))

\* rev_manifest with the committer line written before the author line.
rev_manifest_committer_first(rev) ==
    LET tree == push(<<>>, KeyTree, rev.directory)
        parents == push_parents(tree, rev.parents)
        committer ==
            push_authorship(parents, KeyCommitter, rev.committer, rev.committer_timestamp,
                            rev.committer_timestamp_offset)
        author ==
            push_authorship(committer, KeyAuthor,
                            rev.author, rev.author_timestamp,
                            rev.author_timestamp_offset)
        extra == push_extra_headers(author, rev.extra_headers)
    IN  build(extra, rev.message)

rev_manifest(rev) ==
    LET tree == push(<<>>, KeyTree, rev.directory)
        parents == push_parents(tree, rev.parents)
        author ==
            push_authorship(parents, KeyAuthor,
                            rev.author, rev.author_timestamp,
                            rev.author_timestamp_offset)
        committer ==
            push_authorship(author, KeyCommitter, rev.committer, rev.committer_timestamp,
                            rev.committer_timestamp_offset)
        extra == push_extra_headers(committer, rev.extra_headers)
    IN  build(extra, rev.message)

Revision_swhid(rev) ==
    Swhid_new("Revision",
              hash_swhid_object(<<"c", "o", "m", "m", "i", "t">>,
                                rev_manifest(rev)))

\* ------------------------------------------------------------------------
\* Revisions: inputs and operations
\* ------------------------------------------------------------------------

\* 0efb37b28c53c7e4fbd253bb04a4df14008f63fe
TestTree ==
    <<14, 251, 55, 178, 140, 83, 199, 228, 251, 210,
      83, 187, 4, 164, 223, 20, 0, 143, 99, 254>>

\* A digest with newline bytes in it.
NewlineDigest == [i \in 1..DigestLen |-> IF i % 7 = 3 THEN Newline ELSE 64 + i]

TreePool == {TestTree, NewlineDigest}

ParentPool == {Id(171), NewlineDigest}

Person(name, timestamp, offset) ==
    [name |-> name, timestamp |-> timestamp, offset |-> offset]

PersonPool ==
    { Person(AsBytes(<<"T", " ", "<", "t", "@", "e", ">">>), 1763027354,
             AsBytes(<<"+", "0", "1", "0", "0">>)),
      Person(AsBytes(<<"A">>), 0 - 1, AsBytes(<<"-", "0", "0", "0", "0">>)) }

ExtraHeaderPool ==
    { <<AsBytes(<<"e", "n", "c", "o", "d", "i", "n", "g">>), AsBytes(<<"x">>)>>,
      <<AsBytes(<<"g", "p", "g", "s", "i", "g">>),
        AsBytes(<<"a", "\n", "b", "\n">>)>> }

MessagePool ==
    { None, Some(<<>>), Some(AsBytes(<<"m", "\n", "\n", " ", "x">>)) }

RevInputs ==
    { Revision(d, ps, a, c, hs, msg) :
        d \in TreePool, ps \in SeqsUpTo(ParentPool, MaxParents),
        a \in PersonPool, c \in PersonPool,
        hs \in SeqsUpTo(ExtraHeaderPool, MaxHeaders), msg \in MessagePool }

InitRev ==
    /\ pc = "start" /\ out = Null
    /\ inp \in {[kind |-> "revision", rev |-> r] : r \in RevInputs}

RevManifest ==
    /\ pc = "start" /\ inp.kind = "revision"
    /\ out' = rev_manifest(inp.rev)
    /\ pc' = "rev_manifest"
    /\ UNCHANGED inp

RevisionSwhid ==
    /\ pc = "start" /\ inp.kind = "revision"
    /\ out' = Revision_swhid(inp.rev)
    /\ pc' = "Revision_swhid"
    /\ UNCHANGED inp

NextRev ==
    \/ RevManifest
    \/ RevisionSwhid

SpecRev == InitRev /\ [][NextRev]_vars

\* A header line that carries a digest as lowercase hex.
HexLine(key, digest) ==
    key \o <<Space>> \o AsBytes(hex_encode(digest)) \o <<Newline>>

\* C9: the manifest of a revision starts with the line "tree " + the 40
\* lowercase hex characters of the directory digest, followed by one line
\* "parent " + the 40 lowercase hex characters of its digest per parent,
\* whatever bytes the digests hold.
C9_TreeAndParentsHex ==
    pc = "rev_manifest" =>
        LET rev == inp.rev
            expected ==
                HexLine(KeyTree, rev.directory)
                \o Concat([i \in 1..Len(rev.parents) |->
                              HexLine(KeyParent, rev.parents[i])])
        IN  /\ Len(out) >= Len(expected)
            /\ SubSeq(out, 1, Len(expected)) = expected

\* Reading a manifest back.  The headers end at the first empty line, or at
\* the end of the manifest when there is none.
HeaderEnd(m) ==
    LET blanks == {i \in 1..Len(m) :
                      m[i] = Newline /\ (i = 1 \/ m[i - 1] = Newline)}
    IN  IF blanks = {} THEN Len(m) + 1
        ELSE CHOOSE i \in blanks : \A j \in blanks : i <= j

\* The bytes of s at the positions in keep, in order.
Pick(s, keep) ==
    LET nth(k) == CHOOSE i \in keep : Cardinality({j \in keep : j < i}) = k - 1
    IN  [k \in 1..Cardinality(keep) |-> s[nth(k)]]

\* A header value without the space that follows each of its newlines.
Unfold(v) ==
    Pick(v, {i \in 1..Len(v) :
                ~(i > 1 /\ v[i] = Space /\ v[i - 1] = Newline)})

\* The header lines of h as (key, value) records: a line ends at a newline
\* that is not followed by a space, its key ends at its first space.
HeaderFields(h) ==
    LET ends == {i \in 1..Len(h) :
                    h[i] = Newline /\ (i = Len(h) \/ h[i + 1] # Space)}
        nth(k) == CHOOSE i \in ends : Cardinality({j \in ends : j < i}) = k - 1
        first(k) == IF k = 1 THEN 1 ELSE nth(k - 1) + 1
        line(k) == SubSeq(h, first(k), nth(k) - 1)
        cut(l) == CHOOSE i \in 1..(Len(l) + 1) :
                      /\ i = Len(l) + 1 \/ l[i] = Space
                      /\ \A j \in 1..(i - 1) : l[j] # Space
        field(l) == [key |-> SubSeq(l, 1, cut(l) - 1),
                     value |-> Unfold(SubSeq(l, cut(l) + 1, Len(l)))]
    IN  [k \in 1..Cardinality(ends) |-> field(line(k))]

\* The keys rev_manifest is to write for rev, in order.
HeaderKeys(rev) ==
    <<KeyTree>> \o [i \in 1..Len(rev.parents) |-> KeyParent]
        \o <<KeyAuthor, KeyCommitter>>
        \o [j \in 1..Len(rev.extra_headers) |-> rev.extra_headers[j][1]]

\* Either way of writing a digest as a header value.
DigestValues(digest) == {digest, AsBytes(hex_encode(digest))}

\* C10: the header lines of a revision manifest are tree, one parent line
\* per parent in the caller's order (neither sorted nor deduplicated),
\* author, committer, then the extra headers in their order; a blank line
\* and the message bytes as given follow exactly when there is a message.
C10_HeaderOrder ==
    pc = "rev_manifest" =>
        LET rev == inp.rev
            e == HeaderEnd(out)
            fields == HeaderFields(SubSeq(out, 1, e - 1))
            n == Len(rev.parents)
        IN  /\ [k \in 1..Len(fields) |-> fields[k].key] = HeaderKeys(rev)
            /\ fields[1].value \in DigestValues(rev.directory)
            /\ \A i \in 1..n : fields[1 + i].value \in DigestValues(rev.parents[i])
            /\ \A j \in 1..Len(rev.extra_headers) :
                  fields[n + 3 + j].value = rev.extra_headers[j][2]
            /\ (rev.message = None) <=> (e = Len(out) + 1)
            /\ rev.message # None =>
                  SubSeq(out, e + 1, Len(out)) = rev.message[1]

C10_Witness ==
    /\ pc = "rev_manifest"
    /\ inp.rev.parents = <<Id(171), NewlineDigest>>
    /\ Len(inp.rev.extra_headers) = 2
    /\ inp.rev.author # inp.rev.committer
    /\ inp.rev.message = Some(AsBytes(<<"m", "\n", "\n", " ", "x">>))

\* ------------------------------------------------------------------------
\* HeaderWriter: a writer, the headers pushed to it, and its build
\* ------------------------------------------------------------------------

MaxPushes == 2

HeaderKeyPool ==
    { KeyTree, AsBytes(<<"g", "p", "g", "s", "i", "g">>) }

\* Values as the manifest builders push them: a digest holding newline
\* bytes, hex text, a signature of several lines, and values that start or
\* end with a newline or already hold a space after one.
HeaderValuePool ==
    { NewlineDigest,
      AsBytes(hex_encode(TestTree)),
      AsBytes(<<"a", "\n", "b", "\n", "\n", "c">>),
      AsBytes(<<"\n", " ", "x", "\n">>),
      <<>> }

InitWriter ==
    /\ pc = "writer"
    /\ inp = [kind |-> "writer", pushes |-> 0]
    /\ out = [bytes |-> <<>>, before |-> <<>>, key |-> <<>>, value |-> <<>>]

WriterOpen == inp.kind = "writer" /\ pc \in {"writer", "push"}

WriterPush ==
    /\ WriterOpen
    /\ inp.pushes < MaxPushes
    /\ \E key \in HeaderKeyPool, value \in HeaderValuePool :
          out' = [bytes |-> push(out.bytes, key, value), before |-> out.bytes,
                  key |-> key, value |-> value]
    /\ inp' = [inp EXCEPT !.pushes = @ + 1]
    /\ pc' = "push"

WriterPushAuthorship ==
    /\ WriterOpen
    /\ inp.pushes < MaxPushes
    /\ \E key \in {KeyAuthor, KeyCommitter}, person \in PersonPool :
          out' = [bytes |-> push_authorship(out.bytes, key, person.name,
                                            person.timestamp, person.offset),
                  before |-> out.bytes, key |-> key,
                  value |-> person.name \o <<Space>>
                            \o i64_to_string(person.timestamp) \o <<Space>>
                            \o person.offset]
    /\ inp' = [inp EXCEPT !.pushes = @ + 1]
    /\ pc' = "push"

WriterBuild ==
    /\ WriterOpen
    /\ \E message \in MessagePool :
          out' = [out EXCEPT !.bytes = build(out.bytes, message),
                             !.before = out.bytes]
    /\ pc' = "build"
    /\ UNCHANGED inp

NextWriter ==
    \/ WriterPush
    \/ WriterPushAuthorship
    \/ WriterBuild

SpecWriter == InitWriter /\ [][NextWriter]_vars

\* f is value with one space put after each of its newline bytes: every
\* newline of f is followed by a space, and taking those spaces out again
\* gives value.
IsFolded(f, value) ==
    /\ \A i \in 1..Len(f) : f[i] = Newline => (i < Len(f) /\ f[i + 1] = Space)
    /\ Unfold(f) = value
    /\ Len(f) = Len(value) + Cardinality({i \in 1..Len(value) : value[i] = Newline})

\* C11: a push appends the key, one space, the value with exactly one space
\* after each newline byte of the value and every other byte unchanged,
\* and one newline.
C11_PushFoldsNewlines ==
    pc = "push" =>
        LET n == Len(out.before)
            k == Len(out.key)
            tail == SubSeq(out.bytes, n + 1, Len(out.bytes))
        IN  /\ SubSeq(out.bytes, 1, n) = out.before
            /\ Len(tail) >= k + 2
            /\ SubSeq(tail, 1, k) = out.key
            /\ tail[k + 1] = Space
            /\ tail[Len(tail)] = Newline
            /\ IsFolded(SubSeq(tail, k + 2, Len(tail) - 1), out.value)

\* A value with two newlines in a row was pushed after another header.
C11_Witness ==
    /\ pc = "push"
    /\ inp.pushes = 2
    /\ out.value = AsBytes(<<"a", "\n", "b", "\n", "\n", "c">>)

\* ------------------------------------------------------------------------
\* release.rs
\* ------------------------------------------------------------------------

ReleaseTargetTypes == {"Revision", "Directory", "Release", "Content"}

Release(object, object_type, name, author, author_timestamp, author_timestamp_offset, extra_headers, message) ==
    [object |-> object, object_type |-> object_type, name |-> name,
     author |-> author, author_timestamp |-> author_timestamp,
     author_timestamp_offset |-> author_timestamp_offset,
     extra_headers |-> extra_headers, message |-> message]

KeyObject == AsBytes(<<"o", "b", "j", "e", "c", "t">>)
KeyType == AsBytes(<<"t", "y", "p", "e">>)
KeyTag == AsBytes(<<"t", "a", "g">>)
KeyTagger == AsBytes(<<"t", "a", "g", "g", "e", "r">>)

\* The match on object_type in rel_manifest.
target_type_label(object_type) ==
    CASE object_type = "Revision" -> AsBytes(<<"c", "o", "m", "m", "i", "t">>)
      [] object_type = "Directory" -> AsBytes(<<"t", "r", "e", "e">>)
      [] object_type = "Release" -> AsBytes(<<"t", "a", "g">>)
      [] object_type = "Content" -> AsBytes(<<"b", "l", "o", "b">>)

\* The match on (author, author_timestamp, author_timestamp_offset) writing
\* a tagger line as soon as the author is there.
push_tagger_if_author(writer, rel) ==
    IF rel.author # None
    THEN push(writer, KeyTagger, rel.author[1])
    ELSE writer

\* The match on (author, author_timestamp, author_timestamp_offset).
push_tagger(writer, rel) ==
    IF /\ rel.author # None
       /\ rel.author_timestamp # None
       /\ rel.author_timestamp_offset # None
    THEN push_authorship(writer, KeyTagger, rel.author[1],
                         rel.author_timestamp[1],
                         rel.author_timestamp_offset[1])
    ELSE writer

rel_manifest(rel) ==
    LET object == push(<<>>, KeyObject, AsBytes(hex_encode(rel.object)))
        type == push(object, KeyType, target_type_label(rel.object_type))
        tag == push(type, KeyTag, rel.name)
        tagger == push_tagger(tag, rel)
        extra == push_extra_headers(tagger, rel.extra_headers)
    IN  build(extra, rel.message)

Release_swhid(rel) ==
    Swhid_new("Release",
              hash_swhid_object(<<"t", "a", "g">>, rel_manifest(rel)))

\* ------------------------------------------------------------------------
\* Releases: inputs and operations
\* ------------------------------------------------------------------------

ReleaseNamePool ==
    { AsBytes(<<"v", "1", ".", "0">>), AsBytes(<<"v", "\n", "2">>) }

OptionOf(S) == {None} \cup {Some(x) : x \in S}

RelInputs ==
    { Release(TestTree, ty, name, a, ts, off, hs, msg) :
        ty \in ReleaseTargetTypes, name \in ReleaseNamePool,
        a \in OptionOf({p.name : p \in PersonPool}),
        ts \in OptionOf({p.timestamp : p \in PersonPool}),
        off \in OptionOf({AsBytes(<<"+", "0", "1", "0", "0">>)}),
        hs \in SeqsUpTo(ExtraHeaderPool, MaxHeaders), msg \in MessagePool }

InitRel ==
    /\ pc = "start" /\ out = Null
    /\ inp \in {[kind |-> "release", rel |-> r] : r \in RelInputs}

RelManifest ==
    /\ pc = "start" /\ inp.kind = "release"
    /\ out' = rel_manifest(inp.rel)
    /\ pc' = "rel_manifest"
    /\ UNCHANGED inp

ReleaseSwhid ==
    /\ pc = "start" /\ inp.kind = "release"
    /\ out' = Release_swhid(inp.rel)
    /\ pc' = "Release_swhid"
    /\ UNCHANGED inp

NextRel ==
    \/ RelManifest
    \/ ReleaseSwhid

SpecRel == InitRel /\ [][NextRel]_vars

\* The three optional tagger parts of rel.
TaggerParts(rel) ==
    <<rel.author, rel.author_timestamp, rel.author_timestamp_offset>>

\* rel without any of the three.
WithoutTagger(rel) ==
    [rel EXCEPT !.author = None, !.author_timestamp = None,
                !.author_timestamp_offset = None]

\* C12: a release manifest starts with the lines object <40 hex>,
\* type <label> and tag <name>; a line tagger <name> <epoch> <offset>
\* follows exactly when author, timestamp and offset are all three there,
\* and with only one or two of them the manifest is the one written for
\* none of them.
C12_TaggerOnlyWhenComplete ==
    pc = "rel_manifest" =>
        LET rel == inp.rel
            fields == HeaderFields(SubSeq(out, 1, HeaderEnd(out) - 1))
            complete == \A i \in 1..3 : TaggerParts(rel)[i] # None
        IN  /\ Len(fields) >= 3
            /\ fields[1] = [key |-> KeyObject,
                            value |-> AsBytes(hex_encode(rel.object))]
            /\ Len(fields[1].value) = DigestHexLen
            /\ fields[2].key = KeyType
            /\ rel.object_type = "Revision" =>
                  fields[2].value = AsBytes(<<"c", "o", "m", "m", "i", "t">>)
            /\ rel.object_type = "Directory" => fields[2].value = KeyTree
            /\ rel.object_type = "Release" => fields[2].value = KeyTag
            /\ rel.object_type = "Content" =>
                  fields[2].value = AsBytes(<<"b", "l", "o", "b">>)
            /\ fields[3] = [key |-> KeyTag, value |-> rel.name]
            /\ complete <=> (Len(fields) >= 4 /\ fields[4].key = KeyTagger)
            /\ complete =>
                  fields[4].value =
                      rel.author[1] \o <<Space>>
                      \o i64_to_string(rel.author_timestamp[1]) \o <<Space>>
                      \o rel.author_timestamp_offset[1]
            /\ ~complete => out = rel_manifest(WithoutTagger(rel))

\* A release with an author and an offset but no timestamp was written.
C12_Witness ==
    /\ pc = "rel_manifest"
    /\ inp.rel.author # None
    /\ inp.rel.author_timestamp = None
    /\ inp.rel.author_timestamp_offset # None
    /\ inp.rel.object_type = "Content"

\* ------------------------------------------------------------------------
\* Snapshots: validation and encoding
\* ------------------------------------------------------------------------

HasNul(name) == \E k \in 1..Len(name) : name[k] = 0

IndexFrom(m, c, from) ==
    LET hit == {i \in from..Len(m) : m[i] = c}
    IN  IF hit = {} THEN 0 ELSE CHOOSE i \in hit : \A j \in hit : i <= j

RECURSIVE DecimalValue(_)
\* The number written by the ASCII digits ds, -1 when ds is not digits only.
DecimalValue(ds) ==
    IF ds = <<>> THEN -1
    ELSE LET last == ds[Len(ds)]
             init == SubSeq(ds, 1, Len(ds) - 1)
         IN  IF last < 48 \/ last > 57 THEN -1
             ELSE IF init = <<>> THEN last - 48
             ELSE IF DecimalValue(init) = -1 THEN -1
             ELSE 10 * DecimalValue(init) + (last - 48)

RECURSIVE DecodeBranches(_)
\* Reading a snapshot manifest back, record by record: label up to the first
\* space, name up to the first NUL, length up to the colon, then that many
\* bytes.  A manifest that cannot be read this way ends in a record
\* [malformed |-> TRUE].
DecodeBranches(m) ==
    IF m = <<>> THEN <<>>
    ELSE LET sp == IndexFrom(m, 32, 1)
             nul == IF sp = 0 THEN 0 ELSE IndexFrom(m, 0, sp + 1)
             col == IF nul = 0 THEN 0 ELSE IndexFrom(m, 58, nul + 1)
             len == IF col = 0 THEN -1
                    ELSE DecimalValue(SubSeq(m, nul + 1, col - 1))
         IN  IF len = -1 \/ col + len > Len(m)
             THEN <<[malformed |-> TRUE]>>
             ELSE <<[malformed |-> FALSE,
                     label |-> SubSeq(m, 1, sp - 1),
                     name |-> SubSeq(m, sp + 1, nul - 1),
                     length |-> SubSeq(m, nul + 1, col - 1),
                     payload |-> SubSeq(m, col + 1, col + len)]>>
                  \o DecodeBranches(SubSeq(m, col + len + 1, Len(m)))

\* The manifest label of each kind of target.
KindLabel ==
    [content |-> AsBytes(<<"c", "o", "n", "t", "e", "n", "t">>),
     directory |-> AsBytes(<<"d", "i", "r", "e", "c", "t", "o", "r", "y">>),
     revision |-> AsBytes(<<"r", "e", "v", "i", "s", "i", "o", "n">>),
     release |-> AsBytes(<<"r", "e", "l", "e", "a", "s", "e">>),
     snapshot |-> AsBytes(<<"s", "n", "a", "p", "s", "h", "o", "t">>),
     alias |-> AsBytes(<<"a", "l", "i", "a", "s">>)]

\* C14: a snapshot manifest is one record per branch, in strictly ascending
\* order of the raw names: kind label, space, name, NUL, decimal length of
\* the payload, colon, payload; the payload is the 20 digest bytes or the
\* alias target name, and a dangling target is written 0: with no payload.
C14_BranchEncoding ==
    (pc = "snp_manifest" /\ out.ok) =>
        LET d == DecodeBranches(out.manifest)
            items == inp.items
        IN  /\ Len(d) = Len(items)
            /\ \A i \in 1..Len(d) : ~d[i].malformed
            /\ \A i \in 1..(Len(d) - 1) : BytesCmp(d[i].name, d[i + 1].name) = -1
            /\ \A k \in 1..Len(items) :
                  \E i \in 1..Len(d) :
                     /\ d[i].name = items[k].name
                     /\ d[i].label = KindLabel[items[k].target.kind]
                     /\ d[i].length = Decimal(Len(d[i].payload))
                     /\ items[k].target.id = None =>
                           (d[i].payload = <<>> /\ d[i].length = <<48>>)
                     /\ items[k].target.id # None =>
                           d[i].payload = items[k].target.id[1]
                     /\ (items[k].target.id # None
                            /\ items[k].target.kind # "alias") =>
                           Len(d[i].payload) = DigestLen

\* A snapshot target, a dangling release and a revision, given in descending
\* name order, were encoded.
C14_Witness ==
    /\ pc = "snp_manifest" /\ out.ok
    /\ Len(inp.items) = 3
    /\ inp.items[1].target.kind = "snapshot"
    /\ inp.items[2].target = BranchTarget("release", None)
    /\ inp.items[3].target.kind = "revision"

\* ------------------------------------------------------------------------
\* Directories: validity of names
\* ------------------------------------------------------------------------

\* The bytes of name that a directory entry name must not hold.
BadBytes(name) == {name[k] : k \in 1..Len(name)} \cap {0, 47}

ModeRevisionRef == 57344

File(executable) == [perms |-> "File", executable |-> executable]

EntryPermsValues ==
    {File(x) : x \in BOOLEAN}
    \cup {[perms |-> p] : p \in {"Directory", "Symlink", "RevisionRef"}}

to_swh_mode_u32(perms) ==
    CASE perms = File(FALSE) -> ModeFile
      [] perms = File(TRUE) -> ModeExec
      [] perms.perms = "Directory" -> ModeDir
      [] perms.perms = "Symlink" -> ModeSymlink
      [] perms.perms = "RevisionRef" -> ModeRevisionRef

\* (m & 0o111) != 0
exec_bits(m) == (m \div 64) % 2 = 1 \/ (m \div 8) % 2 = 1 \/ m % 2 = 1

\* path_file_mode on unix, for metadata of the given file type and
\* permission bits m.
path_file_mode(file_type, m) ==
    IF file_type = "dir" THEN ModeDir
    ELSE IF file_type = "file"
         THEN IF exec_bits(m) THEN ModeExec ELSE ModeFile
    ELSE ModeFile

\* The two modes of a regular file.
FileModes == {to_swh_mode_u32(File(x)) : x \in BOOLEAN}

\* C16: two directories that differ only in the executable bit of one
\* regular file (100755 against 100644, same name, same content digest)
\* have different manifests and different identifiers.
C16_ExecutableBitChangesId ==
    pc = "hash_dir_entries" =>
        /\ FileModes = {ModeFile, ModeExec} /\ ModeFile # ModeExec
        /\ path_file_mode("file", 493) = ModeExec
        /\ path_file_mode("file", 420) = ModeFile
        /\ \A i \in 1..Len(inp.items) :
              inp.items[i].mode \in FileModes =>
                 LET flipped ==
                         [inp.items EXCEPT
                            ![i].mode = IF @ = ModeExec THEN ModeFile ELSE ModeExec]
                     other == hash_dir_entries(flipped)
                 IN  /\ other.manifest # out.manifest
                     /\ other.digest # out.digest

\* A directory holding an executable file next to another entry was hashed.
C16_Witness ==
    /\ pc = "hash_dir_entries"
    /\ Len(inp.items) = 2
    /\ inp.items[1].mode = ModeExec
    /\ Len(out.manifest) > 0

\* ------------------------------------------------------------------------
\* permissions.rs: probing and resolving the executable bit
\* ------------------------------------------------------------------------

from_mode(mode) ==
    CASE mode = ModeFile -> [ok |-> TRUE, value |-> File(FALSE)]
      [] mode = ModeExec -> [ok |-> TRUE, value |-> File(TRUE)]
      [] mode = ModeDir -> [ok |-> TRUE, value |-> [perms |-> "Directory"]]
      [] mode = ModeSymlink -> [ok |-> TRUE, value |-> [perms |-> "Symlink"]]
      [] mode = ModeRevisionRef ->
            [ok |-> TRUE, value |-> [perms |-> "RevisionRef"]]
      [] OTHER -> Err("InvalidFormat", <<"Invalid entry mode: ", Digits(mode, 8)>>)

Known(executable) == [exec |-> "Known", executable |-> executable]

Unknown == [exec |-> "Unknown"]

PermissionPolicies == {"Strict", "BestEffort"}

\* FilesystemPermissionsSource::executable_of: on unix the metadata of the
\* path is read (which may fail) and its permission bits decide; elsewhere
\* the answer is Unknown.
executable_of(platform, meta, path) ==
    IF platform = "unix"
    THEN IF meta = None
         THEN Err("Io", <<"Failed to read metadata for ", path>>)
         ELSE [ok |-> TRUE, value |-> Known(exec_bits(meta[1]))]
    ELSE [ok |-> TRUE, value |-> Unknown]

\* resolve_file_permissions where an unknown bit is non-executable under
\* either policy.
resolve_file_permissions_lenient(exec, policy, path) ==
    IF exec.exec = "Known"
    THEN [ok |-> TRUE, value |-> File(exec.executable)]
    ELSE [ok |-> TRUE, value |-> File(FALSE)]

resolve_file_permissions(exec, policy, path) ==
    IF exec.exec = "Known"
    THEN [ok |-> TRUE, value |-> File(exec.executable)]
    ELSE IF policy = "Strict"
    THEN Err("InvalidFormat",
             <<"Cannot determine executable bit for ", path,
               " on this platform. Options: use --permissions-source git-index, provide a permission manifest, or use --permissions-policy best-effort">>)
    ELSE [ok |-> TRUE, value |-> File(FALSE)]

\* ------------------------------------------------------------------------
\* Permissions: inputs and operations
\* ------------------------------------------------------------------------

FilePathPool == {<<"a">>, <<"d", "/", "x", ".", "s", "h">>, <<>>}

\* Permission bits of a file: 644, 755, 700, 001 and 640 in octal.
PermBitsPool == {420, 493, 448, 1, 416}

ProbePool ==
    {[platform |-> "unix", meta |-> m] : m \in OptionOf(PermBitsPool)}
    \cup {[platform |-> "other", meta |-> None]}

InitPerm ==
    /\ pc = "start" /\ out = Null
    /\ inp \in {[kind |-> "perm", path |-> p, policy |-> pol, probe |-> pr] :
                   p \in FilePathPool, pol \in PermissionPolicies,
                   pr \in ProbePool}

ExecutableOf ==
    /\ pc = "start" /\ inp.kind = "perm"
    /\ out' = executable_of(inp.probe.platform, inp.probe.meta, inp.path)
    /\ pc' = "executable_of"
    /\ UNCHANGED inp

ResolveFilePermissions ==
    /\ pc = "executable_of" /\ out.ok
    /\ out' = [exec |-> out.value,
               result |-> resolve_file_permissions(out.value, inp.policy,
                                                   inp.path)]
    /\ pc' = "resolve_file_permissions"
    /\ UNCHANGED inp

ToSwhMode ==
    /\ pc = "resolve_file_permissions" /\ out.result.ok
    /\ out' = [perms |-> out.result.value,
               mode |-> to_swh_mode_u32(out.result.value)]
    /\ pc' = "to_swh_mode_u32"
    /\ UNCHANGED inp

FromMode ==
    /\ pc = "to_swh_mode_u32"
    /\ out' = [perms |-> out.perms, mode |-> out.mode,
               back |-> from_mode(out.mode)]
    /\ pc' = "from_mode"
    /\ UNCHANGED inp

NextPerm ==
    \/ ExecutableOf
    \/ ResolveFilePermissions
    \/ ToSwhMode
    \/ FromMode

SpecPerm == InitPerm /\ [][NextPerm]_vars

\* C17: resolve_file_permissions gives File{executable: x} for Known(x)
\* under either policy; for Unknown it gives an error naming the path under
\* Strict and File{executable: false} under BestEffort; a success is always
\* a File permission.
C17_ResolveFilePermissions ==
    pc = "resolve_file_permissions" =>
        LET r == out.result
        IN  /\ out.exec.exec = "Known" =>
                  r = [ok |-> TRUE, value |-> File(out.exec.executable)]
            /\ (out.exec = Unknown /\ inp.policy = "Strict") =>
                  /\ ~r.ok
                  /\ r.err = "InvalidFormat"
                  /\ r.arg[2] = inp.path
            /\ (out.exec = Unknown /\ inp.policy = "BestEffort") =>
                  r = [ok |-> TRUE, value |-> File(FALSE)]
            /\ r.ok => r.value.perms = "File"

\* An unknown executable bit was refused under the strict policy.
C17_Witness ==
    /\ pc = "resolve_file_permissions"
    /\ out.exec = Unknown
    /\ inp.policy = "Strict"
    /\ ~out.result.ok
    /\ inp.path = <<"d", "/", "x", ".", "s", "h">>

\* ------------------------------------------------------------------------
\* Qualified identifiers: parsing, building and serialization together
\* ------------------------------------------------------------------------

InitSer == InitQual \/ InitBuild

NextSer == NextQual \/ NextBuild

SpecSer == InitSer /\ [][NextSer]_vars

KnownKeys == <<KeyOrigin, KeyVisit, KeyAnchor, KeyPath, KeyLines, KeyBytes>>

\* The items after the core of the string s, the empty ones left out.
QualifierItems(s) ==
    LET cq == split_once(s, ";")
        NonEmpty(item) == item # <<>>
    IN  IF cq = None THEN <<>> ELSE SelectSeq(Split(cq[1][2], ";"), NonEmpty)

\* The core part of the string s.
CorePart(s) ==
    LET cq == split_once(s, ";") IN IF cq = None THEN s ELSE cq[1][1]

\* The text of each known qualifier of q in the serialization order, None
\* where it is not set.
KnownTexts(q) ==
    <<q.origin,
      IF q.visit = None THEN None ELSE Some(Swhid_to_string(q.visit[1])),
      IF q.anchor = None THEN None ELSE Some(Swhid_to_string(q.anchor[1])),
      q.path,
      IF q.lines = None THEN None ELSE Some(Range_to_string(q.lines[1])),
      IF q.bytes = None THEN None ELSE Some(Range_to_string(q.bytes[1]))>>

\* C18: the serialization is the core identifier, then origin, visit,
\* anchor, path, lines, bytes in that order, each only when set and once,
\* then the unrecognized pairs in the order met, each as ;key=value -
\* whatever the order of the qualifiers in the parsed string or of the
\* builder calls.
C18_SerializationOrder ==
    /\ pc = "q_to_string" =>
          LET given == QualifierItems(inp.s)
              shown == QualifierItems(out.shown)
              Present(k) == \E i \in 1..Len(given) : ItemKey(given[i]) = k
              Unrecognized(item) == KeyRank(ItemKey(item)) = 7
              present == SelectSeq(KnownKeys, Present)
              np == Len(present)
          IN  /\ CorePart(out.shown) = CorePart(inp.s)
              /\ Len(shown) = np + Len(SelectSeq(given, Unrecognized))
              /\ \A i \in 1..np : ItemKey(shown[i]) = present[i]
              /\ SubSeq(shown, np + 1, Len(shown)) = SelectSeq(given, Unrecognized)
              /\ out.shown =
                    CorePart(inp.s)
                    \o Concat([i \in 1..Len(shown) |-> <<";">> \o shown[i]])
    /\ pc = "built_to_string" =>
          LET q == inp.q
              texts == KnownTexts(q)
          IN  out.shown =
                  Swhid_to_string(q.core)
                  \o Concat([i \in 1..6 |->
                                IF texts[i] = None THEN <<>>
                                ELSE <<";">> \o KnownKeys[i] \o <<"=">>
                                     \o texts[i][1]])
                  \o Concat([i \in 1..Len(q.others) |->
                                <<";">> \o q.others[i][1] \o <<"=">>
                                \o q.others[i][2]])

\* A string with its path before its origin was parsed and formatted with
\* the origin first.
C18_Witness ==
    /\ pc = "q_to_string"
    /\ QualifierItems(inp.s) = <<Item(KeyPath, <<"/", "p">>), Item(KeyOrigin, <<"u">>)>>
    /\ QualifierItems(out.shown) = <<Item(KeyOrigin, <<"u">>), Item(KeyPath, <<"/", "p">>)>>

\* ------------------------------------------------------------------------
\* Qualified identifiers: parse failures
\* ------------------------------------------------------------------------

\* The value of the numeral b, a string of decimal digits.
NumeralOf(b) == StripZeros([i \in 1..Len(b) |-> DigitVal(b[i])])

\* N: a non-empty string of decimal digits whose value fits in 64 bits.
IsBound(b) ==
    /\ Len(b) > 0
    /\ \A i \in 1..Len(b) : b[i] \in DigitSet
    /\ ~U64Less(U64Max, NumeralOf(b))

\* N, or N-M with M >= N.
IsRangeText(v) ==
    LET bs == Split(v, "-")
    IN  \/ Len(bs) = 1 /\ IsBound(bs[1])
        \/ /\ Len(bs) = 2
           /\ IsBound(bs[1]) /\ IsBound(bs[2])
           /\ ~U64Less(NumeralOf(bs[2]), NumeralOf(bs[1]))

\* One of the faults of an item (a non-empty piece between two ';').
FaultyItem(item) ==
    \/ split_once(item, "=") = None
    \/ ItemKey(item) = <<>>
    \/ ItemKey(item) \in {KeyVisit, KeyAnchor} /\ ~IsCoreIdentifier(ItemValue(item))
    \/ ItemKey(item) \in {KeyLines, KeyBytes} /\ ~IsRangeText(ItemValue(item))

\* C19: QualifiedSwhid::from_str fails whenever the core is invalid or an
\* item has an empty key, has no '=', gives visit or anchor something that
\* is no core identifier, or gives lines or bytes something that is not N
\* or N-M with M >= N; N alone gives a range with no end and N-N is
\* accepted.
C19_ParseFailures ==
    pc = "q_from_str" =>
        LET items == QualifierItems(inp.s)
        IN  /\ ~IsCoreIdentifier(CorePart(inp.s)) => ~out.ok
            /\ (\E i \in 1..Len(items) : FaultyItem(items[i])) => ~out.ok
            /\ (out.ok /\ items = <<Item(KeyBytes, <<"5">>)>>) =>
                  out.value.bytes = Some(Range(<<5>>, None))
            /\ (IsCoreIdentifier(CorePart(inp.s))
                   /\ items = <<Item(KeyLines, <<"7", "-", "7">>)>>) =>
                  /\ out.ok
                  /\ out.value.lines = Some(Range(<<7>>, Some(<<7>>)))

\* ------------------------------------------------------------------------
\* Ranges: inputs and operations
\* ------------------------------------------------------------------------

\* 2^64 - 1 and 2^64 as decimal text.
U64MaxText == u64_to_string(U64Max)
TwoTo64Text == u64_to_string(<<1, 8, 4, 4, 6, 7, 4, 4, 0, 7, 3, 7, 0, 9, 5, 5, 1, 6, 1, 6>>)

\* Texts given as one bound of a range.
BoundTexts ==
    { <<"1", "0">>, <<"0">>, <<"5">>, <<"0", "0", "7">>, <<>>,
      <<"+", "1", "0">>, <<" ", "1", "0">>, <<"1", "0", " ">>, <<"1", "a">>,
      <<"+">>, U64MaxText, TwoTo64Text, <<"0">> \o TwoTo64Text,
      <<"9">> \o U64MaxText }

RangeTexts ==
    BoundTexts \cup {a \o <<"-">> \o b : a, b \in BoundTexts}

InitRange ==
    /\ pc = "start" /\ out = Null
    /\ inp \in {[kind |-> "range", s |-> s] : s \in RangeTexts}

ParseRange ==
    /\ pc = "start" /\ inp.kind = "range"
    /\ out' = parse_range(inp.s)
    /\ pc' = "parse_range"
    /\ UNCHANGED inp

RangeToString ==
    /\ pc = "parse_range" /\ out.ok
    /\ out' = [value |-> out.value, shown |-> Range_to_string(out.value)]
    /\ pc' = "range_to_string"
    /\ UNCHANGED inp

NextRange ==
    \/ ParseRange
    \/ RangeToString

SpecRange == InitRange /\ [][NextRange]_vars

\* The bounds of the range text s: the parts before and after its first '-',
\* or s itself when it has none.
BoundsOf(s) ==
    LET ab == split_once(s, "-")
    IN  IF ab = None THEN <<s>> ELSE <<ab[1][1], ab[1][2]>>

\* C20: parse_range accepts a text only if each of its bounds is a non-empty
\* string of decimal digits whose value fits in 64 bits: a bound above
\* 2^64 - 1 is rejected, not wrapped, and so is a bound with a sign, a space
\* or no digit, as in -10, 10- and +10.
C20_BoundsAreDigits ==
    pc = "parse_range" =>
        (out.ok => \A k \in 1..Len(BoundsOf(inp.s)) : IsBound(BoundsOf(inp.s)[k]))

\* ------------------------------------------------------------------------
\* Core identifiers: wrong number of fields
\* ------------------------------------------------------------------------

\* s is a valid identifier cut at one of its ':' (swh, swh:1, swh:1:<tag>).
IsTruncatedIdentifier(s) ==
    LET it == Split(s, ":")
    IN  /\ Len(it) \in 1..3
        /\ it[1] = <<"s", "w", "h">>
        /\ Len(it) >= 2 => it[2] = VERSION
        /\ Len(it) >= 3 => it[3] \in GoodTags

\* s is a valid identifier followed by ':' and one more field.
IsExtendedIdentifier(s) ==
    LET it == Split(s, ":")
    IN  /\ Len(it) = 5
        /\ IsCoreIdentifier(Join(SubSeq(it, 1, 4), ":"))

\* C21: parsing the empty string, a valid identifier cut at a ':' or a
\* valid identifier followed by one more field gives the InvalidFormat
\* error.
C21_WrongFieldCount ==
    (pc = "from_str" /\ (\/ inp.s = <<>>
                         \/ IsTruncatedIdentifier(inp.s)
                         \/ IsExtendedIdentifier(inp.s))) =>
        (~out.ok /\ out.err = "InvalidFormat")

\* ------------------------------------------------------------------------
\* hash.rs and content.rs: the digest of a content object
\* ------------------------------------------------------------------------

\* The digest taken over the data alone, with no header before it.
hash_content_unprefixed(data) ==
    [sha1 |-> data]

hash_content(data) ==
    [sha1 |-> swhid_object_header(<<"b", "l", "o", "b">>, Len(data)) \o data]

hash_blob(data) == hash_content(data)

\* Content::swhid
Content_swhid(bytes) == Swhid_new("Content", hash_blob(bytes))

\* The labels of the five object kinds that are hashed.
HashLabels ==
    { <<"b", "l", "o", "b">>, <<"t", "r", "e", "e">>,
      <<"c", "o", "m", "m", "i", "t">>, <<"t", "a", "g">>,
      <<"s", "n", "a", "p", "s", "h", "o", "t">> }

\* b"Hello, World!"
HelloWorld == <<72, 101, 108, 108, 111, 44, 32, 87, 111, 114, 108, 100, 33>>

\* b"test data"
TestData == <<116, 101, 115, 116, 32, 100, 97, 116, 97>>

PayloadPool ==
    { <<>>, <<0>>, <<32>>, <<48, 0>>, <<0, 0, 0>>, TestData, HelloWorld,
      TestData \o <<0>>, HelloWorld \o TestData \o HelloWorld }

HeaderLenPool == {0, 9, 10, 99, 100, 1234}

MaxCalls == 2

InitHash ==
    /\ pc = "start"
    /\ out = Null
    /\ inp \in [typ : HashLabels, payload : PayloadPool, len : HeaderLenPool]

SwhidObjectHeader ==
    /\ pc = "start"
    /\ pc' = "swhid_object_header"
    /\ out' = swhid_object_header(inp.typ, inp.len)
    /\ UNCHANGED inp

HashSwhidObject ==
    /\ pc = "start"
    /\ pc' = "hash_swhid_object"
    /\ out' = hash_swhid_object(inp.typ, inp.payload)
    /\ UNCHANGED inp

HashContent ==
    /\ pc = "start"
    /\ pc' = "hash_content"
    /\ out' = hash_content(inp.payload)
    /\ UNCHANGED inp

\* Content::from_bytes: the value holds the bytes and nothing else.
ContentFromBytes ==
    /\ pc = "start"
    /\ pc' = "content"
    /\ out' = <<>>
    /\ UNCHANGED inp

\* One call of swhid() on the content value; out lists the answers so far.
ContentSwhid ==
    /\ pc = "content"
    /\ Len(out) < MaxCalls
    /\ out' = Append(out, Content_swhid(inp.payload))
    /\ UNCHANGED <<pc, inp>>

NextHash ==
    \/ SwhidObjectHeader
    \/ HashSwhidObject
    \/ HashContent
    \/ ContentFromBytes
    \/ ContentSwhid

SpecHash == InitHash /\ [][NextHash]_vars

\* Reading a header back: the label up to the first space, the digits up to
\* the last byte, which is the NUL byte.
IsHeaderOf(h, label, n) ==
    LET sp == IndexFrom(h, 32, 1)
    IN  /\ sp > 1
        /\ Len(h) >= sp + 2
        /\ SubSeq(h, 1, sp - 1) = AsBytes(label)
        /\ h[Len(h)] = 0
        /\ LET ds == SubSeq(h, sp + 1, Len(h) - 1)
           IN  /\ DecimalValue(ds) = n
               /\ (ds[1] # 48 \/ Len(ds) = 1)

\* The hashed bytes m are a header of the label for the payload's length,
\* followed by the payload.
IsHeaderThenPayload(m, label, payload) ==
    LET hl == Len(m) - Len(payload)
    IN  /\ hl > 0
        /\ SubSeq(m, hl + 1, Len(m)) = payload
        /\ IsHeaderOf(SubSeq(m, 1, hl), label, Len(payload))

\* C22: the header is the label, one space, the length in decimal and one
\* NUL byte; a digest is taken over that header for the payload's length
\* followed by the payload, and hash_content(d) is hash_swhid_object of the
\* label blob and d.
C22_HeaderAndDigest ==
    /\ pc = "swhid_object_header" => IsHeaderOf(out, inp.typ, inp.len)
    /\ pc = "hash_swhid_object" =>
           IsHeaderThenPayload(out.sha1, inp.typ, inp.payload)
    /\ pc = "hash_content" =>
           /\ IsHeaderThenPayload(out.sha1, <<"b", "l", "o", "b">>, inp.payload)
           /\ out = hash_swhid_object(<<"b", "l", "o", "b">>, inp.payload)

C22_Witness ==
    /\ pc = "hash_content"
    /\ Len(inp.payload) >= 10
    /\ out.sha1 = <<98, 108, 111, 98, 32, 49, 51, 0>> \o HelloWorld

\* ------------------------------------------------------------------------
\* permissions.rs: ManifestPermissionsSource
\* ------------------------------------------------------------------------
\* The manifest text and the paths are byte strings here: 34 is the double
\* quote, 46 the dot, 47 the slash, 58 the colon, 92 the backslash.

Quote == 34

Dot == 46

Slash == 47

Colon == 58

Backslash == 92

\* str::find of a pattern: the first position at or after from, 0 for None.
find_from(s, pat, from) ==
    LET hit == {i \in from..(Len(s) - Len(pat) + 1) :
                   SubSeq(s, i, i + Len(pat) - 1) = pat}
    IN  IF hit = {} THEN 0 ELSE CHOOSE i \in hit : \A j \in hit : i <= j

\* str::rfind of one byte: the last position, 0 for None.
rfind(s, c) ==
    LET hit == {i \in 1..Len(s) : s[i] = c}
    IN  IF hit = {} THEN 0 ELSE CHOOSE i \in hit : \A j \in hit : i >= j

contains(s, pat) == find_from(s, pat, 1) # 0

starts_with(s, pat) == Len(s) >= Len(pat) /\ SubSeq(s, 1, Len(pat)) = pat

RECURSIVE str_split(_, _)
\* str::split on a non-empty pattern.
str_split(s, pat) ==
    LET i == find_from(s, pat, 1)
    IN  IF i = 0 THEN <<s>>
        ELSE <<SubSeq(s, 1, i - 1)>>
             \o str_split(SubSeq(s, i + Len(pat), Len(s)), pat)

\* str::lines: split at line feeds, no last empty line, a carriage return
\* before the line feed left out.
str_lines(s) ==
    LET pieces == str_split(s, <<Newline>>)
        kept == IF pieces[Len(pieces)] = <<>>
                THEN SubSeq(pieces, 1, Len(pieces) - 1) ELSE pieces
        strip(l) == IF l # <<>> /\ l[Len(l)] = 13
                    THEN SubSeq(l, 1, Len(l) - 1) ELSE l
    IN  [k \in 1..Len(kept) |-> strip(kept[k])]

IsWhite(b) == b \in {9, 10, 11, 12, 13, 32}

\* str::trim
str_trim(s) ==
    LET ink == {i \in 1..Len(s) : ~IsWhite(s[i])}
    IN  IF ink = {} THEN <<>>
        ELSE SubSeq(s, CHOOSE i \in ink : \A j \in ink : i <= j,
                       CHOOSE i \in ink : \A j \in ink : i >= j)

\* str::replace of one byte by another.
replace(s, from, to) == [i \in 1..Len(s) |-> IF s[i] = from THEN to ELSE s[i]]

\* normalize_path; windows is cfg!(windows) of the build.
normalize_path(path, windows) ==
    IF starts_with(path, <<Slash>>) \/ (windows /\ contains(path, <<Colon>>))
    THEN Err("InvalidFormat", <<"Manifest contains absolute path: ", path>>)
    ELSE IF contains(path, <<Dot, Dot>>)
    THEN Err("InvalidFormat", <<"Manifest contains '..' in path: ", path>>)
    ELSE [ok |-> TRUE, value |-> replace(path, Backslash, Slash)]

RECURSIVE section_fields(_, _)
\* The loop over the lines of one section: acc holds the path and the
\* executable flag read so far, each an Option.
section_fields(lines, acc) ==
    IF lines = <<>> THEN acc
    ELSE LET line == str_trim(Head(lines))
             start == find_from(line, <<Quote>>, 1)
             end == rfind(line, Quote)
             next ==
                 IF starts_with(line, AsBytes(<<"p", "a", "t", "h">>))
                 THEN IF start # 0 /\ end > start
                      THEN [acc EXCEPT !.path =
                                Some(SubSeq(line, start + 1, end - 1))]
                      ELSE acc
                 ELSE IF starts_with(line,
                             AsBytes(<<"e", "x", "e", "c", "u", "t", "a", "b", "l", "e">>))
                 THEN [acc EXCEPT !.executable =
                           Some(contains(line, AsBytes(<<"t", "r", "u", "e">>)))]
                 ELSE acc
         IN  section_fields(Tail(lines), next)

\* HashMap::insert
map_insert(map, k, v) == (k :> v) @@ map

RECURSIVE parse_sections(_, _, _)
\* The loop over the sections after the first [[file]] marker.
parse_sections(sections, manifest, windows) ==
    IF sections = <<>> THEN [ok |-> TRUE, value |-> [manifest |-> manifest]]
    ELSE LET f == section_fields(str_lines(Head(sections)),
                                 [path |-> None, executable |-> None])
         IN  IF f.path # None /\ f.executable # None
             THEN LET normalized == normalize_path(f.path[1], windows)
                  IN  IF ~normalized.ok THEN normalized
                      ELSE parse_sections(Tail(sections),
                               map_insert(manifest, normalized.value,
                                          f.executable[1]), windows)
             ELSE parse_sections(Tail(sections), manifest, windows)

FileMarker == <<91, 91>> \o AsBytes(<<"f", "i", "l", "e">>) \o <<93, 93>>

\* ManifestPermissionsSource::parse
Manifest_parse(toml, windows) ==
    parse_sections(Tail(str_split(toml, FileMarker)), <<>>, windows)

\* ManifestPermissionsSource::executable_of
Manifest_executable_of(self, path) ==
    LET path_str == replace(path, Backslash, Slash)
    IN  IF path_str \in DOMAIN self.manifest
        THEN [ok |-> TRUE, value |-> Known(self.manifest[path_str])]
        ELSE [ok |-> TRUE, value |-> Unknown]

MaxRecords == 2

\* One [[file]] section of a manifest: the path and the flag it gives, each
\* an Option (a section may lack either line).
FileRecord(path, executable) == [path |-> path, executable |-> executable]

ManifestPathPool ==
    { <<98, 47, 116>>, <<100>>, <<Slash, 101>>, <<Dot, Dot, Slash, 120>>,
      <<97, Slash, Dot, Dot>>, <<98, Backslash, 116>>, <<Backslash, 101>>,
      <<99, Colon, 120>>, <<97, Dot, Dot, 98>> }

RecordPool ==
    {FileRecord(Some(p), Some(e)) : p \in ManifestPathPool, e \in BOOLEAN}
    \cup {FileRecord(Some(<<Slash, 101>>), None), FileRecord(None, Some(TRUE))}

LookupPool ==
    {<<98, 47, 116>>, <<98, Backslash, 116>>, <<100>>, <<Slash, 101>>, <<117>>}

\* The text of one section, as the manifest file spells it.
SectionText(rec) ==
    FileMarker \o <<Newline>>
    \o (IF rec.path = None THEN <<>>
        ELSE AsBytes(<<"p", "a", "t", "h", " ", "=", " ">>) \o <<Quote>>
             \o rec.path[1] \o <<Quote, Newline>>)
    \o (IF rec.executable = None THEN <<>>
        ELSE AsBytes(<<"e", "x", "e", "c", "u", "t", "a", "b", "l", "e", " ", "=", " ">>)
             \o (IF rec.executable[1] THEN AsBytes(<<"t", "r", "u", "e">>)
                 ELSE AsBytes(<<"f", "a", "l", "s", "e">>))
             \o <<Newline>>)
    \o <<Newline>>

\* The text of a manifest file with the given sections.
ManifestText(records) ==
    <<Newline>> \o Concat([k \in 1..Len(records) |-> SectionText(records[k])])

InitManifest ==
    /\ pc = "start"
    /\ out = Null
    /\ inp \in [records : SeqsUpTo(RecordPool, MaxRecords), windows : BOOLEAN]

ManifestParse ==
    /\ pc = "start"
    /\ pc' = "manifest_parse"
    /\ out' = Manifest_parse(ManifestText(inp.records), inp.windows)
    /\ UNCHANGED inp

ManifestExecutableOf ==
    /\ pc = "manifest_parse"
    /\ out.ok
    /\ pc' = "manifest_executable_of"
    /\ \E q \in LookupPool :
          out' = [self |-> out.value, path |-> q,
                  answer |-> Manifest_executable_of(out.value, q)]
    /\ UNCHANGED inp

NextManifest == ManifestParse \/ ManifestExecutableOf

SpecManifest == InitManifest /\ [][NextManifest]_vars

\* The path starts at the root.
IsAbsolutePath(p) == p # <<>> /\ p[1] = Slash

\* One of the segments of the path, cut at slashes and backslashes, is "..".
HasParentSegment(p) ==
    \E k \in 1..Len(str_split(replace(p, Backslash, Slash), <<Slash>>)) :
        str_split(replace(p, Backslash, Slash), <<Slash>>)[k] = <<Dot, Dot>>

\* The sections that give both a path and a flag.
ListedRecords ==
    {inp.records[k] : k \in {j \in 1..Len(inp.records) :
        inp.records[j].path # None /\ inp.records[j].executable # None}}

\* The flags the manifest records for the path, slashes normalised.
RecordedFlags(path) ==
    {rec.executable[1] : rec \in {r \in ListedRecords :
        replace(r.path[1], Backslash, Slash) = replace(path, Backslash, Slash)}}

C23_LoadRejects ==
    pc = "manifest_parse" =>
        ((\E rec \in ListedRecords :
             IsAbsolutePath(rec.path[1]) \/ HasParentSegment(rec.path[1]))
         => ~out.ok)

C23_KeysRelative ==
    (pc = "manifest_parse" /\ out.ok) =>
        \A key \in DOMAIN out.value.manifest :
            /\ ~IsAbsolutePath(key)
            /\ ~HasParentSegment(key)
            /\ ~contains(key, <<Backslash>>)

C23_Lookup ==
    pc = "manifest_executable_of" =>
        IF RecordedFlags(out.path) = {}
        THEN out.answer = [ok |-> TRUE, value |-> Unknown]
        ELSE \E f \in RecordedFlags(out.path) :
                 out.answer = [ok |-> TRUE, value |-> Known(f)]

\* C23: a manifest with a listed path that is absolute or has a ".." segment
\* fails to load; after a successful load no key is absolute, has a ".."
\* segment or a backslash; a lookup answers Unknown for a path that is not
\* listed and Known with the recorded flag for a listed one.
C23_ManifestPaths == C23_LoadRejects /\ C23_KeysRelative /\ C23_Lookup

\* ------------------------------------------------------------------------
\* directory.rs: the walk of a directory on disk
\* ------------------------------------------------------------------------
\* A filesystem is a sequence of nodes, node 1 the root of the walk.  A
\* directory holds the set of its children, each a name and a node; a
\* symlink holds the bytes of its target path and the node the path leads
\* to, 0 when it leads nowhere.

MaxDepth == 4

DirNode(children) == [kind |-> "dir", children |-> children]

FileNode(bytes, perm) == [kind |-> "file", bytes |-> bytes, perm |-> perm]

SymlinkNode(target, to) == [kind |-> "symlink", target |-> target, to |-> to]

SpecialNode == [kind |-> "special"]

Child(name, node) == [name |-> name, node |-> node]

WalkOptions(follow_symlinks, exclude_suffixes) ==
    [follow_symlinks |-> follow_symlinks, exclude_suffixes |-> exclude_suffixes]

ends_with(s, suf) ==
    Len(s) >= Len(suf) /\ SubSeq(s, Len(s) - Len(suf) + 1, Len(s)) = suf

\* is_excluded with the test of the start of the name.
is_excluded_by_prefix(name, opts) ==
    \E k \in 1..Len(opts.exclude_suffixes) :
        starts_with(name, opts.exclude_suffixes[k])

\* is_excluded; the names of the model are ASCII, which from_utf8_lossy
\* leaves as they are.
is_excluded(name, opts) ==
    \E k \in 1..Len(opts.exclude_suffixes) :
        ends_with(name, opts.exclude_suffixes[k])

RECURSIVE resolve(_, _, _)
\* The node a path to node id leads to when symlinks are followed, 0 when
\* the chain of links leads nowhere or is longer than fuel.
resolve(fs, id, fuel) ==
    IF id = 0 THEN 0
    ELSE IF fs[id].kind # "symlink" THEN id
    ELSE IF fuel = 0 THEN 0
    ELSE resolve(fs, fs[id].to, fuel - 1)

\* The metadata that never follows a symlink.
entry_metadata_never_follow(fs, id, opts) == id

\* The metadata that always follows a symlink.
entry_metadata_always_follow(fs, id, opts) == resolve(fs, id, Len(fs))

\* if opts.follow_symlinks { fs::metadata } else { fs::symlink_metadata }:
\* the node the metadata describes, 0 when the call fails.
entry_metadata(fs, id, opts) ==
    IF opts.follow_symlinks THEN resolve(fs, id, Len(fs)) ELSE id

symlink_mode == ModeSymlink

\* The 20 bytes of a digest, as they are written into a manifest.  SHA-1 is
\* uninterpreted, so they are written as the hashed bytes between two marks.
id_bytes(digest) == <<-1>> \o digest.sha1 \o <<-2>>

\* The entry pushed for a child that is a symlink.
symlink_entry(name, node) ==
    Entry(name, symlink_mode, id_bytes(hash_content(node.target)))

\* The entry pushed for a child that is a regular file.
file_entry(name, node) ==
    Entry(name, path_file_mode("file", node.perm), id_bytes(hash_content(node.bytes)))

\* The entry pushed for a child that is a directory with the digest id.
dir_entry(name, id) == Entry(name, ModeDir, id_bytes(id))

\* The frame of one call of hash_dir_inner: the directory, the name it was
\* entered by, the children read_dir has not yet given, and the entries
\* pushed so far.
Frame(dir, name, todo, children) ==
    [dir |-> dir, name |-> name, todo |-> todo, children |-> children]

\* The children in the order of their names.
ByName(children) ==
    [r \in 1..Cardinality(children) |->
        CHOOSE c \in children :
            Cardinality({d \in children : BytesCmp(d.name, c.name) < 0}) = r - 1]

RECURSIVE hash_dir_inner(_, _, _, _)
\* hash_dir_inner as a function of the directory dir of the filesystem fs,
\* when read_dir gives the children in the order of their names and no call
\* fails but the metadata of a link that leads nowhere.  fuel bounds the
\* depth of the recursion.
hash_dir_inner(fs, dir, opts, fuel) ==
    IF fuel = 0 THEN Err("Depth", dir)
    ELSE LET kept == {c \in fs[dir].children : ~is_excluded(c.name, opts)}
             md(c) == entry_metadata(fs, c.node, opts)
             sub(c) == hash_dir_inner(fs, md(c), opts, fuel - 1)
             failed == {c \in kept :
                           \/ md(c) = 0
                           \/ fs[md(c)].kind = "dir" /\ ~sub(c).ok}
             pushed == {c \in kept : fs[md(c)].kind # "special"}
             entry(c) ==
                 CASE fs[md(c)].kind = "dir" -> dir_entry(c.name, sub(c).value)
                   [] fs[md(c)].kind = "symlink" -> symlink_entry(c.name, fs[md(c)])
                   [] fs[md(c)].kind = "file" -> file_entry(c.name, fs[md(c)])
             listed == ByName(pushed)
         IN  IF failed # {} THEN Err("Io", dir)
             ELSE [ok |-> TRUE,
                   value |-> hash_swhid_object(<<"t", "r", "e", "e">>,
                       dir_payload([k \in 1..Len(listed) |-> entry(listed[k])]))]

FileA == AsBytes(<<"a">>)

FileTmp == AsBytes(<<"b", ".", "t", "m", "p">>)

NameUp == AsBytes(<<"u", "p">>)

SuffixTmp == AsBytes(<<".", "t", "m", "p">>)

\* A directory with two files, a sub-directory with an executable file and
\* a symlink to a file.
PlainFs ==
    << DirNode({Child(FileA, 2), Child(FileTmp, 3), Child(AsBytes(<<"d">>), 4),
                Child(AsBytes(<<"l">>), 6)}),
       FileNode(<<120>>, 420), FileNode(<<121>>, 420),
       DirNode({Child(AsBytes(<<"f">>), 5)}), FileNode(<<122>>, 493),
       SymlinkNode(FileA, 2) >>

\* A sub-directory with a symlink to the root, and a special file.
CycleFs ==
    << DirNode({Child(AsBytes(<<"d">>), 2), Child(AsBytes(<<"s">>), 4)}),
       DirNode({Child(NameUp, 3), Child(AsBytes(<<"f">>), 5)}),
       SymlinkNode(<<Dot, Dot>>, 1), SpecialNode, FileNode(<<120>>, 420) >>

\* A symlink to a sibling directory, and a symlink to the root under a name
\* with the suffix .tmp.
LinkedDirFs ==
    << DirNode({Child(AsBytes(<<"t">>), 2), Child(AsBytes(<<"l", "t">>), 4),
                Child(AsBytes(<<"x">>) \o SuffixTmp, 5)}),
       DirNode({Child(AsBytes(<<"g">>), 3)}), FileNode(<<120>>, 420),
       SymlinkNode(AsBytes(<<"t">>), 2), SymlinkNode(<<Dot>>, 1) >>

\* An empty sub-directory, a symlink that leads nowhere and an empty file.
DanglingFs ==
    << DirNode({Child(AsBytes(<<"e">>), 2), Child(AsBytes(<<"z">>), 3),
                Child(AsBytes(<<"b">>), 4)}),
       DirNode({}), SymlinkNode(AsBytes(<<"n", "o">>), 0), FileNode(<<>>, 420) >>

FsPool == {PlainFs, CycleFs, LinkedDirFs, DanglingFs}

ExcludePool == {<<>>, <<SuffixTmp>>, <<NameUp, SuffixTmp>>}

InitWalk ==
    /\ pc = "start"
    /\ out = Null
    /\ inp \in {[fs |-> fs, opts |-> WalkOptions(follow, ex)] :
                   fs \in FsPool, follow \in BOOLEAN, ex \in ExcludePool}

\* A call of the filesystem on the child name of the directory dir.
Call(op, dir, name) == <<op, dir, name>>

\* Directory::swhid: the first call of hash_dir_inner and its read_dir.
WalkStart ==
    /\ pc = "start"
    /\ pc' = "walk"
    /\ out' = [stack |-> <<Frame(1, <<>>, inp.fs[1].children, <<>>)>>,
               calls |-> {Call("read_dir", 0, <<>>)},
               res |-> Null]
    /\ UNCHANGED inp

\* read_dir of the root fails.
WalkStartFail ==
    /\ pc = "start"
    /\ pc' = "done"
    /\ out' = [stack |-> <<>>, calls |-> {Call("read_dir", 0, <<>>)},
               res |-> Err("Io", <<>>)]
    /\ UNCHANGED inp

\* if is_excluded(&name_bytes, opts) { continue; }
WalkExcluded ==
    /\ pc = "walk"
    /\ \E c \in out.stack[Len(out.stack)].todo :
          /\ is_excluded(c.name, inp.opts)
          /\ out' = [out EXCEPT !.stack[Len(out.stack)].todo = @ \ {c}]
    /\ UNCHANGED <<pc, inp>>

\* if ft.is_dir(): the recursive call and its read_dir.
WalkDir ==
    /\ pc = "walk"
    /\ Len(out.stack) < MaxDepth
    /\ \E c \in out.stack[Len(out.stack)].todo :
          LET md == entry_metadata(inp.fs, c.node, inp.opts)
              dir == out.stack[Len(out.stack)].dir
          IN  /\ ~is_excluded(c.name, inp.opts)
              /\ md # 0
              /\ inp.fs[md].kind = "dir"
              /\ out' = [out EXCEPT
                     !.stack = Append(@, Frame(md, c.name, inp.fs[md].children, <<>>)),
                     !.calls = @ \cup {Call("metadata", dir, c.name),
                                       Call("read_dir", dir, c.name)}]
    /\ UNCHANGED <<pc, inp>>

\* else if ft.is_symlink()
WalkSymlink ==
    /\ pc = "walk"
    /\ \E c \in out.stack[Len(out.stack)].todo :
          LET md == entry_metadata(inp.fs, c.node, inp.opts)
              dir == out.stack[Len(out.stack)].dir
          IN  /\ ~is_excluded(c.name, inp.opts)
              /\ md # 0
              /\ inp.fs[md].kind = "symlink"
              /\ out' = [out EXCEPT
                     !.stack[Len(out.stack)].todo = @ \ {c},
                     !.stack[Len(out.stack)].children =
                         Append(@, symlink_entry(c.name, inp.fs[md])),
                     !.calls = @ \cup {Call("metadata", dir, c.name),
                                       Call("read_link", dir, c.name)}]
    /\ UNCHANGED <<pc, inp>>

\* else if ft.is_file()
WalkFile ==
    /\ pc = "walk"
    /\ \E c \in out.stack[Len(out.stack)].todo :
          LET md == entry_metadata(inp.fs, c.node, inp.opts)
              dir == out.stack[Len(out.stack)].dir
          IN  /\ ~is_excluded(c.name, inp.opts)
              /\ md # 0
              /\ inp.fs[md].kind = "file"
              /\ out' = [out EXCEPT
                     !.stack[Len(out.stack)].todo = @ \ {c},
                     !.stack[Len(out.stack)].children =
                         Append(@, file_entry(c.name, inp.fs[md])),
                     !.calls = @ \cup {Call("metadata", dir, c.name),
                                       Call("read", dir, c.name)}]
    /\ UNCHANGED <<pc, inp>>

\* else { continue; }: a special file.
WalkSpecial ==
    /\ pc = "walk"
    /\ \E c \in out.stack[Len(out.stack)].todo :
          LET md == entry_metadata(inp.fs, c.node, inp.opts)
              dir == out.stack[Len(out.stack)].dir
          IN  /\ ~is_excluded(c.name, inp.opts)
              /\ md # 0
              /\ inp.fs[md].kind = "special"
              /\ out' = [out EXCEPT
                     !.stack[Len(out.stack)].todo = @ \ {c},
                     !.calls = @ \cup {Call("metadata", dir, c.name)}]
    /\ UNCHANGED <<pc, inp>>

\* A call on a child that is not excluded fails (its metadata, read,
\* read_link or read_dir): every frame returns the error through its "?".
WalkFail ==
    /\ pc = "walk"
    /\ \E c \in out.stack[Len(out.stack)].todo :
          /\ ~is_excluded(c.name, inp.opts)
          /\ out' = [stack |-> <<>>,
                     calls |-> out.calls \cup
                         {Call("metadata", out.stack[Len(out.stack)].dir, c.name)},
                     res |-> Err("Io", c.name)]
    /\ pc' = "done"
    /\ UNCHANGED inp

\* The return of the digest id to the caller, which pushes the entry of the
\* directory; the first call returns the digest as the result.
return_digest(walk, id) ==
    IF Len(walk.stack) = 1
    THEN [walk EXCEPT !.stack = <<>>, !.res = [ok |-> TRUE, value |-> id]]
    ELSE [walk EXCEPT
             !.stack = [k \in 1..(Len(walk.stack) - 1) |->
                 IF k < Len(walk.stack) - 1 THEN walk.stack[k]
                 ELSE [walk.stack[k] EXCEPT
                          !.todo = {c \in @ : c.name # walk.stack[k + 1].name},
                          !.children =
                              Append(@, dir_entry(walk.stack[k + 1].name, id))]]]

\* The end of the loop: the payload of the children, the digest of the tree
\* and the return.
WalkReturn ==
    /\ pc = "walk"
    /\ out.stack[Len(out.stack)].todo = {}
    /\ pc' = (IF Len(out.stack) = 1 THEN "done" ELSE pc)
    /\ \E payload \in {dir_payload(out.stack[Len(out.stack)].children)} :
          \E id \in {hash_swhid_object(<<"t", "r", "e", "e">>, payload)} :
              out' = return_digest(out, id)
    /\ UNCHANGED inp

NextWalk ==
    \/ WalkStart
    \/ WalkStartFail
    \/ WalkExcluded
    \/ WalkDir
    \/ WalkSymlink
    \/ WalkFile
    \/ WalkSpecial
    \/ WalkFail
    \/ WalkReturn

SpecWalk == InitWalk /\ [][NextWalk]_vars

\* The node of the child of directory dir that has the given name.
ChildNode(fs, dir, name) ==
    (CHOOSE c \in fs[dir].children : c.name = name).node

WalkFrames == IF pc = "walk" THEN 1..Len(out.stack) ELSE {}

\* The entries of frame k, each paired with the node of the child it is for.
FrameEntries(k) ==
    {[entry |-> out.stack[k].children[i],
      node |-> ChildNode(inp.fs, out.stack[k].dir, out.stack[k].children[i].name)] :
        i \in 1..Len(out.stack[k].children)}

\* The id is that of the content object of the bytes.
IsContentIdOf(id, bytes) ==
    /\ Len(id) >= 2
    /\ id[1] = -1 /\ id[Len(id)] = -2
    /\ IsHeaderThenPayload(SubSeq(id, 2, Len(id) - 1), <<"b", "l", "o", "b">>, bytes)

\* The entry is the one a child that is the node itself, not a link to it,
\* gets; a link that leads nowhere (node 0) gets no entry.
IsEntryOfNode(e, node) ==
    IF node = 0 THEN FALSE
    ELSE
    CASE inp.fs[node].kind = "file" ->
             /\ e.mode = (IF exec_bits(inp.fs[node].perm) THEN ModeExec ELSE ModeFile)
             /\ IsContentIdOf(e.id, inp.fs[node].bytes)
      [] inp.fs[node].kind = "dir" ->
             /\ e.mode = ModeDir
             /\ hash_dir_inner(inp.fs, node, inp.opts, MaxDepth).ok
             /\ e.id = id_bytes(hash_dir_inner(inp.fs, node, inp.opts, MaxDepth).value)
      [] OTHER -> FALSE

\* C24: without follow_symlinks a symlink child gets an entry of mode 120000
\* whose digest is that of the content object of the bytes of the link
\* target, and no directory is entered through a symlink; with
\* follow_symlinks the child gets the entry of the file or directory the
\* link leads to, and a directory entered through it is that directory.
C24_SymlinkChildren ==
    \A k \in WalkFrames :
        /\ \A x \in FrameEntries(k) :
               inp.fs[x.node].kind = "symlink" =>
                   IF inp.opts.follow_symlinks
                   THEN IsEntryOfNode(x.entry, resolve(inp.fs, x.node, Len(inp.fs)))
                   ELSE /\ mode_bytes(x.entry.mode) = <<49, 50, 48, 48, 48, 48>>
                        /\ IsContentIdOf(x.entry.id, inp.fs[x.node].target)
        /\ k > 1 =>
               LET via == ChildNode(inp.fs, out.stack[k - 1].dir, out.stack[k].name)
               IN  inp.fs[via].kind = "symlink" =>
                       /\ inp.opts.follow_symlinks
                       /\ out.stack[k].dir = resolve(inp.fs, via, Len(inp.fs))

\* A symlink to a directory has got its entry of mode 120000.
C24_Witness ==
    /\ pc = "walk"
    /\ inp.fs = LinkedDirFs
    /\ ~inp.opts.follow_symlinks
    /\ \E x \in FrameEntries(1) :
           /\ x.entry.name = AsBytes(<<"l", "t">>)
           /\ x.entry.mode = ModeSymlink
           /\ inp.fs[inp.fs[x.node].to].kind = "dir"

\* The raw name ends with one of the exclude suffixes.
HasExcludedSuffix(name) ==
    \E k \in 1..Len(inp.opts.exclude_suffixes) :
        LET suf == inp.opts.exclude_suffixes[k]
        IN  /\ Len(name) >= Len(suf)
            /\ \A i \in 1..Len(suf) : name[Len(name) - Len(suf) + i] = suf[i]

\* The node a child stands for in the walk: itself, or with follow_symlinks
\* the node its links lead to (0 for nowhere).
WalkedAs(node) ==
    IF inp.opts.follow_symlinks THEN resolve(inp.fs, node, Len(inp.fs)) ELSE node

\* C25: no filesystem call is made on a child whose name ends with an
\* exclude suffix, such a child gets no entry and is never the cause of a
\* failure; a child that is neither directory, file nor symlink gets no
\* entry; a failed call ends the walk with an I/O error, all frames gone,
\* and a walk that returns a digest made no call that fails.
C25_SkipsAndFailures ==
    /\ pc \in {"walk", "done"} =>
           \A call \in out.calls : ~HasExcludedSuffix(call[3])
    /\ \A k \in WalkFrames : \A x \in FrameEntries(k) :
           /\ ~HasExcludedSuffix(x.entry.name)
           /\ WalkedAs(x.node) # 0
           /\ inp.fs[WalkedAs(x.node)].kind # "special"
    /\ (pc = "done" /\ ~out.res.ok) =>
           /\ out.res.err = "Io"
           /\ out.stack = <<>>
           /\ ~HasExcludedSuffix(out.res.arg)
    /\ (pc = "done" /\ out.res.ok) =>
           \A call \in out.calls :
               (call[1] = "metadata") =>
                   WalkedAs(ChildNode(inp.fs, call[2], call[3])) # 0

\* The child b.tmp of the root has been dropped, with no call made on it.
C25_Witness ==
    /\ pc = "walk"
    /\ inp.fs = PlainFs
    /\ inp.opts.exclude_suffixes = <<SuffixTmp>>
    /\ Len(out.stack) = 1
    /\ \A c \in out.stack[1].todo : c.name # FileTmp
    /\ \A call \in out.calls : call[3] # FileTmp

\* The frames below the top are waiting for the directory above them: the
\* child they descended into is still to be pushed.
FrameWaits(k) ==
    \E c \in out.stack[k].todo : c.name = out.stack[k + 1].name

\* C27: the digest the walk returns is that of hash_dir_inner with the
\* children taken in the order of their names, whatever the order in which
\* they were enumerated; an entry of a sub-directory holds the finished
\* digest of that sub-directory, a function of the sub-directory alone; and
\* while a sub-directory is walked its parent has pushed no entry for it.
C27_PostOrderAndOrderIndependent ==
    /\ (pc = "done" /\ out.res.ok) =>
           out.res = hash_dir_inner(inp.fs, 1, inp.opts, MaxDepth)
    /\ \A k \in WalkFrames :
           /\ \A x \in FrameEntries(k) :
                  x.entry.mode = ModeDir =>
                      x.entry.id = id_bytes(hash_dir_inner(inp.fs, WalkedAs(x.node),
                                                           inp.opts, MaxDepth).value)
           /\ k < Len(out.stack) =>
                  /\ FrameWaits(k)
                  /\ \A x \in FrameEntries(k) : x.entry.name # out.stack[k + 1].name

\* The root is about to return with its entries pushed in an order that is
\* not the order of the names: the sub-directory d, finished, before the
\* file a.
C27_Witness ==
    /\ pc = "walk"
    /\ inp.fs = PlainFs
    /\ Len(out.stack) = 1
    /\ out.stack[1].todo = {}
    /\ Len(out.stack[1].children) >= 2
    /\ out.stack[1].children[1].name = AsBytes(<<"d">>)
    /\ out.stack[1].children[1].mode = ModeDir
    /\ out.stack[1].children[2].name = FileA

\* The steps of the program itself; whether a filesystem call fails is up to
\* the environment.
WalkProgress ==
    \/ WalkStart
    \/ WalkExcluded
    \/ WalkDir
    \/ WalkSymlink
    \/ WalkFile
    \/ WalkSpecial
    \/ WalkReturn

\* The program is sequential and takes its next step as long as it has one.
SpecWalkLive == SpecWalk /\ WF_vars(WalkProgress)

RECURSIVE LinkToAncestor(_, _, _, _)
\* Below the directory dir, reached from the root through the directories
\* ancestors, the walk with follow_symlinks and the exclude suffixes of opts
\* comes to a symlink that leads to dir or to one of ancestors.
LinkToAncestor(dir, ancestors, opts, fuel) ==
    \E c \in inp.fs[dir].children :
        LET r == resolve(inp.fs, c.node, Len(inp.fs))
        IN  /\ \A k \in 1..Len(opts.exclude_suffixes) :
                   ~ends_with(c.name, opts.exclude_suffixes[k])
            /\ r # 0
            /\ inp.fs[r].kind = "dir"
            /\ \/ inp.fs[c.node].kind = "symlink" /\ r \in ancestors \cup {dir}
               \/ /\ fuel > 0
                  /\ r \notin ancestors \cup {dir}
                  /\ LinkToAncestor(r, ancestors \cup {dir}, opts, fuel - 1)

\* Some symlink of the tree leads to one of its own ancestor directories.
HasLinkToAncestor ==
    LinkToAncestor(1, {}, WalkOptions(TRUE, <<>>), Len(inp.fs))

\* The walk comes to such a symlink: neither the link nor a directory on
\* the way to it is excluded.
WalksLinkToAncestor == LinkToAncestor(1, {}, inp.opts, Len(inp.fs))

\* C28 as stated: without follow_symlinks the walk ends; with follow_symlinks
\* and a symlink to an ancestor in the tree it never ends.
C28_NeverTerminates ==
    /\ (pc = "start" /\ ~inp.opts.follow_symlinks) ~> (pc = "done")
    /\ []((inp.opts.follow_symlinks /\ HasLinkToAncestor) => pc # "done")

\* C28: without follow_symlinks the walk of every tree ends, with a digest
\* or an I/O error; with follow_symlinks and a symlink to an ancestor that
\* the walk comes to (neither it nor a directory above it is excluded), the
\* walk never returns a digest: it ends only when a filesystem call fails.
C28_Termination ==
    /\ (pc = "start" /\ ~inp.opts.follow_symlinks) ~> (pc = "done")
    /\ []((inp.opts.follow_symlinks /\ WalksLinkToAncestor) =>
              ~(pc = "done" /\ out.res.ok))

\* The walk is in the root directory a second time, below itself.
C28_Witness ==
    /\ pc = "walk"
    /\ inp.fs = CycleFs
    /\ inp.opts.follow_symlinks
    /\ Len(out.stack) >= 3
    /\ out.stack[3].dir = out.stack[1].dir
    /\ out.stack[3].name = NameUp

\* ------------------------------------------------------------------------
\* git.rs: parse_signature
\* ------------------------------------------------------------------------

\* The "/" of two i32: the quotient rounded towards zero.
i32_div(a, b) == IF a >= 0 THEN a \div b ELSE 0 - ((0 - a) \div b)

\* The "%" of two i32: the remainder has the sign of the dividend.
i32_rem(a, b) == a - b * i32_div(a, b)

\* format!("{n:02}") of an i32: the minus sign counts in the width of two.
format_02(n) ==
    IF n >= 0 THEN ZeroPad(Decimal(n), 2) ELSE <<45>> \o Decimal(0 - n)

\* A git2::Signature: the name, the email, and the time with its seconds,
\* its offset in minutes and its sign character.
Signature(name, email, seconds, offset_minutes, sign) ==
    [name |-> name, email |-> email, seconds |-> seconds,
     offset_minutes |-> offset_minutes, sign |-> sign]

parse_signature(sig) ==
    LET full_name == sig.name \o <<Space, 60>> \o sig.email \o <<62>>
        offset_hours == i32_div(sig.offset_minutes, 60)
        offset_minutes == i32_rem(sig.offset_minutes, 60)
        offset == <<sig.sign>> \o format_02(offset_hours) \o format_02(offset_minutes)
    IN  <<full_name, sig.seconds, offset>>

SigNamePool == {AsBytes(<<"T", "e", "s", "t", " ", "U", "s", "e", "r">>), <<65>>, <<>>}

SigEmailPool == {AsBytes(<<"t", "@", "e", ".", "c">>), <<>>}

SigSecondsPool == {0, 1, 1763027354}

SigOffsetPool == {-720, -90, -60, -30, -1, 0, 1, 30, 60, 90, 330, 840}

\* The sign character of a time: '-' for a negative offset, '+' for a
\* positive one, either for the offset zero.
SignsOf(m) == IF m < 0 THEN {45} ELSE IF m > 0 THEN {43} ELSE {43, 45}

InitSig ==
    /\ pc = "start"
    /\ out = Null
    /\ inp \in {Signature(n, e, s, m, sg) :
                   n \in SigNamePool, e \in SigEmailPool, s \in SigSecondsPool,
                   m \in SigOffsetPool, sg \in {43, 45}}
    /\ inp.sign \in SignsOf(inp.offset_minutes)

ParseSignature ==
    /\ pc = "start"
    /\ pc' = "parse_signature"
    /\ out' = parse_signature(inp)
    /\ UNCHANGED inp

NextSig == ParseSignature

SpecSig == InitSig /\ [][NextSig]_vars

\* |m|
Abs(m) == IF m < 0 THEN 0 - m ELSE m

\* The two decimal digits of a number below 100.
TwoDigits(n) == <<48 + (n \div 10), 48 + (n % 10)>>

\* C29: the offset of m minutes is rendered as five bytes, the sign, the two
\* digits of |m| div 60 and the two digits of |m| mod 60; the name is
\* rendered as name, space, '<', email, '>'; the seconds are unchanged.
C29_OffsetRendering ==
    pc = "parse_signature" =>
        /\ out[3] = <<inp.sign>> \o TwoDigits(Abs(inp.offset_minutes) \div 60)
                    \o TwoDigits(Abs(inp.offset_minutes) % 60)
        /\ Len(out[3]) = 5
        /\ out[1] = inp.name \o <<32, 60>> \o inp.email \o <<62>>
        /\ out[2] = inp.seconds

\* ------------------------------------------------------------------------
\* git.rs: parse_object_with_header
\* ------------------------------------------------------------------------

MaxFields == 2

RECURSIVE read_continuation_with_space(_, _)
\* The loop over the continuation lines without the removal of the space
\* that starts each of them.
read_continuation_with_space(manifest, value) ==
    LET newline_position == IndexFrom(manifest, Newline, 1)
        line == SubSeq(manifest, 1, newline_position - 1)
    IN  IF newline_position = 0 \/ line = <<>> \/ line[1] # Space
        THEN [value |-> value, manifest |-> manifest]
        ELSE read_continuation_with_space(
                 SubSeq(manifest, newline_position + 1, Len(manifest)),
                 value \o <<Newline>> \o line)

RECURSIVE read_continuation(_, _)
\* The loop over the continuation lines of a value: the value read and the
\* manifest that is left.
read_continuation(manifest, value) ==
    LET newline_position == IndexFrom(manifest, Newline, 1)
        line == SubSeq(manifest, 1, newline_position - 1)
    IN  IF newline_position = 0 \/ line = <<>> \/ line[1] # Space
        THEN [value |-> value, manifest |-> manifest]
        ELSE read_continuation(
                 SubSeq(manifest, newline_position + 1, Len(manifest)),
                 value \o <<Newline>> \o Tail(line))

RECURSIVE parse_headers(_, _)
\* The outer loop of parse_object_with_header, with the headers read so far.
parse_headers(manifest, headers) ==
    IF manifest = <<>>
    THEN [ok |-> TRUE, value |-> [headers |-> headers, message |-> <<>>]]
    ELSE IF manifest[1] = Newline
    THEN [ok |-> TRUE, value |-> [headers |-> headers, message |-> Tail(manifest)]]
    ELSE LET newline_position == IndexFrom(manifest, Newline, 1)
             first_line == SubSeq(manifest, 1, newline_position - 1)
             rest == SubSeq(manifest, newline_position + 1, Len(manifest))
             delimiter_position == IndexFrom(first_line, Space, 1)
             key == SubSeq(first_line, 1, delimiter_position - 1)
             read == read_continuation(rest,
                         SubSeq(first_line, delimiter_position + 1, Len(first_line)))
         IN  IF newline_position = 0
             THEN Err("Io", "Header line is missing a line end")
             ELSE IF delimiter_position = 0
             THEN Err("Io", "Header line is missing a value")
             ELSE IF key = <<>>
             THEN Err("Io", "Empty key")
             ELSE parse_headers(read.manifest, Append(headers, <<key, read.value>>))

parse_object_with_header(manifest) == parse_headers(manifest, <<>>)

RECURSIVE write_headers(_, _)
\* HeaderWriter::push for each of the headers, in their order.
write_headers(self, headers) ==
    IF headers = <<>> THEN self
    ELSE write_headers(push(self, Head(headers)[1], Head(headers)[2]), Tail(headers))

FieldKeyPool == {<<107>>, AsBytes(<<"g", "p", "g", "s", "i", "g">>)}

FieldValuePool ==
    { <<>>, <<97>>, <<Newline>>, <<97, Newline>>, <<97, Newline, Newline, 98>>,
      <<Space, 120>>, <<97, Newline, Space, 98>>, <<Newline, Newline>> }

FieldMessagePool ==
    { None, Some(<<>>), Some(<<109>>), Some(<<Newline, 109>>),
      Some(<<Space, 109, Newline>>), Some(<<107, Space, 118, Newline>>) }

InitFields ==
    /\ pc = "start"
    /\ out = Null
    /\ inp \in [headers : SeqsUpTo(FieldKeyPool \X FieldValuePool, MaxFields),
                message : FieldMessagePool]

\* HeaderWriter::default(), a push for each header, then build.
WriteObject ==
    /\ pc = "start"
    /\ pc' = "written"
    /\ out' = [manifest |-> build(write_headers(<<>>, inp.headers), inp.message)]
    /\ UNCHANGED inp

ParseObjectWithHeader ==
    /\ pc = "written"
    /\ pc' = "parsed"
    /\ out' = [manifest |-> out.manifest,
               parsed |-> parse_object_with_header(out.manifest)]
    /\ UNCHANGED inp

NextFields == WriteObject \/ ParseObjectWithHeader

SpecFields == InitFields /\ [][NextFields]_vars

\* C30: what parse_object_with_header reads from the bytes HeaderWriter
\* wrote is the headers that were pushed, in their order, and the bytes of
\* the message (none when there is no message).
C30_HeaderRoundTrip ==
    pc = "parsed" =>
        /\ out.parsed.ok
        /\ out.parsed.value.headers = inp.headers
        /\ out.parsed.value.message =
               (IF inp.message = None THEN <<>> ELSE inp.message[1])

\* Two headers, the first with a value that ends with a newline and the
\* second with consecutive newlines inside, and a message, have been read
\* back.
C30_Witness ==
    /\ pc = "parsed"
    /\ Len(inp.headers) = 2
    /\ inp.headers[1][2] = <<97, Newline>>
    /\ inp.headers[2][2] = <<97, Newline, Newline, 98>>
    /\ inp.message = Some(<<Space, 109, Newline>>)
    /\ out.parsed.ok
    /\ out.parsed.value.headers[2][2] = <<97, Newline, Newline, 98>>

\* ------------------------------------------------------------------------
\* hash.rs: the SHA-1 digest of the hashed bytes
\* ------------------------------------------------------------------------
\* Sha1CD computes SHA-1.  A 32-bit word is the pair of its high and its
\* low 16 bits.

\* Bit i of the 16-bit number x.
BitOf(x, i) == (x \div (2 ^ i)) % 2

\* The round functions on one bit: choice, parity, majority, parity.
RoundBit(kind, b, c, d) ==
    CASE kind = 0 -> IF b = 1 THEN c ELSE d
      [] kind = 2 -> IF b + c + d >= 2 THEN 1 ELSE 0
      [] OTHER -> (b + c + d) % 2

RECURSIVE RoundHalf(_, _, _, _, _)
\* The round function on bits 0 to i of three 16-bit numbers.
RoundHalf(kind, x, y, z, i) ==
    IF i < 0 THEN 0
    ELSE (2 ^ i) * RoundBit(kind, BitOf(x, i), BitOf(y, i), BitOf(z, i))
         + RoundHalf(kind, x, y, z, i - 1)

RoundWord(kind, x, y, z) ==
    <<RoundHalf(kind, x[1], y[1], z[1], 15), RoundHalf(kind, x[2], y[2], z[2], 15)>>

WordXor(x, y) == RoundWord(1, x, y, <<0, 0>>)

\* Addition modulo 2^32.
WordAdd(x, y) ==
    << (x[1] + y[1] + ((x[2] + y[2]) \div 65536)) % 65536, (x[2] + y[2]) % 65536 >>

\* Rotation to the left by n bits, n from 1 to 15.
WordRotl(x, n) ==
    << ((x[1] * (2 ^ n)) % 65536) + (x[2] \div (2 ^ (16 - n))),
       ((x[2] * (2 ^ n)) % 65536) + (x[1] \div (2 ^ (16 - n))) >>

\* Rotation to the left by 30 bits: by 16, then by 14.
WordRotl30(x) == WordRotl(<<x[2], x[1]>>, 14)

\* The constant of round t.
RoundConstant(t) ==
    CASE t < 20 -> <<23170, 31129>>
      [] t < 40 -> <<28377, 60321>>
      [] t < 60 -> <<36635, 48348>>
      [] OTHER -> <<51810, 49622>>

\* The initial hash value.
Sha1Initial ==
    << <<26437, 8961>>, <<61389, 43913>>, <<39098, 56574>>, <<4146, 21622>>,
       <<50130, 57840>> >>

RECURSIVE Sha1Schedule(_)
\* The message schedule: the 16 words of the block extended to 80.
Sha1Schedule(w) ==
    IF Len(w) = 80 THEN w
    ELSE Sha1Schedule(Append(w,
             WordRotl(WordXor(WordXor(w[Len(w) - 2], w[Len(w) - 7]),
                              WordXor(w[Len(w) - 13], w[Len(w) - 15])), 1)))

RECURSIVE Sha1Rounds(_, _, _, _)
\* Rounds t to stop - 1 on the working variables st with the schedule w.
Sha1Rounds(st, w, t, stop) ==
    IF t = stop THEN st
    ELSE LET f == RoundWord(t \div 20, st[2], st[3], st[4])
             temp == WordAdd(WordAdd(WordAdd(WordAdd(WordRotl(st[1], 5), f), st[5]),
                                     RoundConstant(t)), w[t + 1])
         IN  CHOOSE result \in
                 {Sha1Rounds(next, w, t + 1, stop) :
                     next \in {<<temp, st[1], WordRotl30(st[2]), st[3], st[4]>>}} : TRUE

\* The 80 rounds, twenty at a time.
Sha1Compress(h, w) ==
    CHOOSE result \in
        {Sha1Rounds(s3, w, 60, 80) :
            s3 \in {Sha1Rounds(s2, w, 40, 60) :
                s2 \in {Sha1Rounds(s1, w, 20, 40) :
                    s1 \in {Sha1Rounds(h, w, 0, 20)}}}} : TRUE

\* The 16 words of a block of 64 bytes.
BlockWords(block) ==
    [k \in 1..16 |-> <<block[4 * k - 3] * 256 + block[4 * k - 2],
                       block[4 * k - 1] * 256 + block[4 * k]>>]

RECURSIVE Sha1Blocks(_, _)
\* The hash value after the blocks of the padded message.
Sha1Blocks(h, padded) ==
    IF padded = <<>> THEN h
    ELSE LET st == Sha1Compress(h, Sha1Schedule(BlockWords(SubSeq(padded, 1, 64))))
         IN  Sha1Blocks([k \in 1..5 |-> WordAdd(h[k], st[k])],
                        SubSeq(padded, 65, Len(padded)))

\* The padding: the byte 128, zero bytes up to 56 modulo 64, and the length
\* in bits as 8 bytes.
Sha1Pad(bytes) ==
    LET zeros == (119 - (Len(bytes) % 64)) % 64
        bits == 8 * Len(bytes)
    IN  bytes \o <<128>> \o [k \in 1..zeros |-> 0]
        \o <<0, 0, 0, 0, 0, (bits \div 65536) % 256, (bits \div 256) % 256, bits % 256>>

\* hasher.update(..); hasher.finalize(): the 20 bytes of the SHA-1 digest.
Sha1(bytes) ==
    LET h == Sha1Blocks(Sha1Initial, Sha1Pad(bytes))
    IN  Concat([k \in 1..5 |-> <<h[k][1] \div 256, h[k][1] % 256,
                                 h[k][2] \div 256, h[k][2] % 256>>])


\* ------------------------------------------------------------------------
\* content.rs: the identifiers of known contents
\* ------------------------------------------------------------------------

\* The identifier of a content object as text: the digest field holds the
\* bytes that are hashed, and the text shows their SHA-1 digest.
Content_swhid_string(swhid) ==
    Swhid_to_string(Swhid_new(swhid.object_type, Sha1(swhid.digest.sha1)))

\* swh:1:cnt:e69de29bb2d1d6434b8b29ae775ad8c2e48c5391
EmptyContentId ==
    << "s", "w", "h", ":", "1", ":", "c", "n", "t", ":",
       "e", "6", "9", "d", "e", "2", "9", "b", "b", "2",
       "d", "1", "d", "6", "4", "3", "4", "b", "8", "b",
       "2", "9", "a", "e", "7", "7", "5", "a", "d", "8",
       "c", "2", "e", "4", "8", "c", "5", "3", "9", "1" >>

\* swh:1:cnt:b45ef6fec89518d314f546fd6c3025367b721684
HelloWorldContentId ==
    << "s", "w", "h", ":", "1", ":", "c", "n", "t", ":",
       "b", "4", "5", "e", "f", "6", "f", "e", "c", "8",
       "9", "5", "1", "8", "d", "3", "1", "4", "f", "5",
       "4", "6", "f", "d", "6", "c", "3", "0", "2", "5",
       "3", "6", "7", "b", "7", "2", "1", "6", "8", "4" >>

\* C26: every call of swhid() on a content value gives the same identifier;
\* for the empty byte string it reads
\* swh:1:cnt:e69de29bb2d1d6434b8b29ae775ad8c2e48c5391 and for the 13 bytes
\* of Hello, World! it reads
\* swh:1:cnt:b45ef6fec89518d314f546fd6c3025367b721684.
C26_KnownAnswers ==
    (pc = "content" /\ out # <<>>) =>
        /\ \A k \in 1..Len(out) : out[k] = out[1]
        /\ inp.payload = <<>> =>
               Content_swhid_string(out[Len(out)]) = EmptyContentId
        /\ inp.payload = HelloWorld =>
               Content_swhid_string(out[Len(out)]) = HelloWorldContentId

\* Hello, World! asked for its identifier twice or more, the last answer
\* being the published one.
C26_Witness ==
    /\ pc = "content"
    /\ Len(out) >= 2
    /\ inp.payload = HelloWorld
    /\ out[1] = out[Len(out)]
    /\ Content_swhid_string(out[Len(out)]) = HelloWorldContentId

====
